---------------------------- MODULE Spec2Model ----------------------------
(***************************************************************************)
(* A model of proxy-scraper-checker: the checker's worker pool             *)
(* (checker.rs), the IP database cache (ipdb.rs) and the staged            *)
(* orchestrator (main.rs).                                                 *)
(*                                                                         *)
(* Tasks are tokio tasks.  A task only gives up control at an `.await`;    *)
(* every action below is the code that runs between two suspension points. *)
(* `tokio::select! { biased; work => .., () = token.cancelled() => .. }`   *)
(* polls the work branch first and looks at the token only when the work   *)
(* branch is pending, so a cancelled task leaves only at a suspension      *)
(* point of its work.                                                      *)
(*                                                                         *)
(* An Option<T> is modelled as a set: {} is None and {v} is Some(v).       *)
(***************************************************************************)
EXTENDS Integers, Sequences, FiniteSets, Bags, TLC

(***************************************************************************)
(* Bounds of the model.                                                    *)
(***************************************************************************)
\* the largest number of proxies handed to check_all
MaxProxies == 2
\* the largest configured checking.max_concurrent_checks
MaxConcurrentChecks == 2
\* the largest elapsed time a passed probe measures (abstract time units)
MaxElapsed == 0
\* the number of versions of a database the server may publish
MaxVersions == 2
\* the largest number of chunks of a response body
MaxChunks == 2
\* the number of program runs that download the databases, one after another
MaxRuns == 2
\* the number of values of rand::random the backoff jitter is sampled at
JitterSteps == 2
\* the largest number of candidate lines in the text of a source
MaxLines == 2
\* the largest max_proxies_per_source
MaxCap == 2
\* the largest number of digits after the colon of a candidate
MaxPortDigits == 5

\* inserts into a ProxyStorage
MaxInserts == 3
\* the longest vector handed to the exporter
MaxSortLen == 3
\* events waiting in the TUI's channel
MaxQueued == 1

VARIABLES
    config,            \* Arc<Config>, read-only: the fields the stages read
    server,            \* the answers the database server can give in this run
    token,             \* CancellationToken: TRUE once cancelled
    \* ---- checker::check_all
    ckState,           \* "idle" | "called" | "running" | "returned"
    ckInput,           \* the argument `proxies: Vec<Proxy>`
    queue,             \* checker.rs:28, Mutex<Vec<Proxy>>
    checked_proxies,   \* checker.rs:29, Mutex<Vec<Proxy>>
    workers_count,     \* checker.rs:19
    wpc,               \* each worker task's position
    wproxy,            \* the proxy a worker holds (Option)
    ckResult,          \* the value check_all returned (Option of a Vec)
    tx,                \* the events sent to the UI channel, in order
    \* ---- history of the checker run (observations, not program state)
    popped,            \* ids popped from the queue, in order
    probed,            \* id -> outcomes of the probes that finished on it
    passedLive,        \* ids whose probe passed while the token was live
    pushedLive,        \* ids pushed to the results while the token was live
    cancelledInRun,    \* the token was cancelled while check_all was running
    \* ---- ipdb::DbType::download, one task per database
    dbFile,            \* the cached <name>.mmdb file (Option of its content)
    etagFile,          \* the sibling <name>.mmdb.etag file (Option of an ETag)
    dlPc,              \* each download task's position
    dlSent,            \* the If-None-Match header of the request (Option)
    dlResp,            \* the 200 response being saved (Option)
    dlRes,             \* what the task returned: "none" | "Ok" | "Err"
    runs,              \* program runs started so far
    \* ---- history of a download (observations, not program state)
    dlStatus,          \* the status of the response received (Option)
    dlSnapDb,          \* the DB file when download was called
    dlSnapEtag,        \* the ETag file when download was called
    \* ---- main_task
    mainPc,            \* "idle" | "joining" | "checking" | "inChecker" |
                       \* "exporting" | "returned"
    mainRes,           \* what main_task returned: "none" | "Ok" | "Err"
    mainErr,           \* the stage whose error main_task returned
    scrPc,             \* each scraping task's position
    proxies,           \* main.rs:261, the scraped set (ids)
    exportInput,       \* the argument of save_proxies (Option of a Vec)
    \* ---- history of the run (observation, not program state)
    cancelStage,       \* mainPc when the token was cancelled
    \* ---- scraper::fetch_text, one call
    fPc,               \* "idle" | "awaiting" | "sleeping" | "reading" | "done"
    attempt,           \* scraper.rs:81
    fRes,              \* what fetch_text returned: "none" | "Ok" | "Err"
    \* ---- history of the fetch (observations, not program state)
    requests,          \* the number of requests sent
    sleeps,            \* the delays slept (ms), in order
    fLast,             \* the last answer to a request (Option)
    \* ---- scraper::scrape_all with its scrape_one tasks
    scfg,              \* config.scraping: cap, enabled protocols, sources
    soPc,              \* per source task: "idle" | "fetching" | "done"
    soRes,             \* per source task: "none" | "Ok" | "Err"
    scraped,           \* the shared HashSet<Proxy> (scraper.rs:237), a bag
    saPc,              \* scrape_all: "idle" | "joining" | "returned"
    saRes,             \* what scrape_all returned: "none" | "Ok" | "Err"
    saVec,             \* the Vec<Proxy> scrape_all returned, a bag
    \* ---- history of the scrape (observations, not program state)
    soFetch,           \* per source: fetch_text gave "none" | "Ok" | "Err"
    soText,            \* per source: the text the regex went through (Option)
    soInserted,        \* per source: the proxies it passed to insert
    proxies_total,     \* per protocol: the amount of the last TotalProxies
                       \* event sent (Option), as tui.rs:424-426 keeps it
    \* ---- one candidate through PROXY_REGEX and the port parse
    portPc,            \* "text" | "scraped"
    portText,          \* the digits after the colon
    portNext,          \* what follows them: "end" | "sep" | "alnum"
    portEmitted,       \* the port of the proxy emitted (Option)
    \* ---- one match through the loop body of scrape_one
    rsPc,              \* "text" | "resolved"
    rsText,            \* the scheme written before the candidate (Option)
    rsCfg,             \* the source's protocol and the enabled protocols
    rsOut,             \* the proxy inserted (Option)
    \* ---- one call of Proxy::check
    pbPc,              \* "start" | "sent" | "reading" | "done"
    pbCfg,             \* check_url is Some, and the proxy URL can be built
    pbProxy,           \* the proxy checked
    pbResp,            \* what the request through the proxy gives
    pbRes,             \* what check returned: "none" | "Ok" | "Err"
    pbRequests,        \* the number of requests sent (history)
    \* ---- a ProxyStorage
    enabled_protocols, \* ProxyStorage.enabled_protocols
    stProxies,         \* ProxyStorage.proxies, a HashSet kept as a bag
    stGroups,          \* what the last get_grouped returned (Option)
    stArg,             \* the argument of the last insert (Option, history)
    stInserted,        \* the arguments of all inserts (history)
    \* ---- two runs of the exporter on the same proxies
    sort_by_speed,     \* config.output.sort_by_speed
    srtIn,             \* the vector each run is given
    srtOut,            \* the vector each run writes out (Option)
    \* ---- run_without_tui (main.rs:335-349)
    wsHandlers,        \* the signal handlers can be created
    wsPc,              \* watch_signals: "idle" | "waiting" | "returned" | "dropped"
    rwtPc,             \* run_without_tui: "idle" | "joining" | "returned"
    rwtRes,            \* what run_without_tui returned
    \* ---- the TUI (tui.rs)
    mode,              \* AppState.mode
    rx,                \* the events sent to the TUI and not yet received
    tuiPc,             \* "idle" | "created" | "recv" | "returned" | "failed"
                       \* for run; "call" | "called" for one handle_event
    handled,           \* the event handle_event was last given (Option, history)
    redraw             \* what handle_event last returned

cfgVars == <<config, server>>
\* the configuration and the parts modelled on their own, which the stages
\* of a run leave alone
fetchVars == <<fPc, attempt, fRes, requests, sleeps, fLast>>
scrapeVars == <<scfg, soPc, soRes, scraped, saPc, saRes, saVec>>
scrapeHist == <<soFetch, soText, soInserted, proxies_total>>
portVars == <<portPc, portText, portNext, portEmitted>>
resolveVars == <<rsPc, rsText, rsCfg, rsOut>>
\* the single operations that are applied to drawn inputs
probeVars == <<pbPc, pbCfg, pbProxy, pbResp, pbRes, pbRequests>>
storageVars == <<enabled_protocols, stProxies, stGroups, stArg, stInserted>>
sortVars == <<sort_by_speed, srtIn, srtOut>>
runnerVars == <<wsHandlers, wsPc, rwtPc, rwtRes>>
tuiVars == <<mode, rx, tuiPc, handled, redraw>>
pureVars == <<resolveVars, probeVars, storageVars, sortVars, runnerVars,
              tuiVars>>
asideVars == <<cfgVars, fetchVars, scrapeVars, scrapeHist, portVars, pureVars>>
mainVars == <<mainPc, mainRes, mainErr, scrPc, proxies, exportInput>>
mainHist == <<cancelStage>>
dbFiles == <<dbFile, etagFile>>
dlVars == <<dlPc, dlSent, dlResp, dlRes, runs>>
dlHist == <<dlStatus, dlSnapDb, dlSnapEtag>>
ckVars == <<ckState, ckInput, queue, checked_proxies, workers_count, wpc,
            wproxy, ckResult, tx>>
ckHist == <<popped, probed, passedLive, pushedLive, cancelledInRun>>
vars == <<asideVars, token, ckVars, ckHist, dbFiles, dlVars, dlHist, mainVars,
          mainHist>>

\* what the checker's actions leave alone
notChecker == <<asideVars, dbFiles, dlVars, dlHist, mainVars, mainHist>>
\* what a download's actions leave alone
notDownload == <<asideVars, ckVars, ckHist, mainVars, mainHist>>

(***************************************************************************)
(* Helpers                                                                 *)
(***************************************************************************)
Min(a, b) == IF a <= b THEN a ELSE b

Range(s) == {s[i] : i \in DOMAIN s}

Ids(s) == {s[i].id : i \in DOMAIN s}

Workers == 1..MaxConcurrentChecks

ProxyIds == 1..MaxProxies

\* The exit IPs a passed probe of the checker runs reports (Option values).
CheckerExitIps == {{"9.9.9.9"}}

\* ProxyType of the i-th input proxy (proxy.rs:19-23)
ProtocolOf(i) == IF i % 2 = 1 THEN "Http" ELSE "Socks5"

\* A proxy as the scraper creates it (scraper.rs:199-219): identity fields
\* (abstracted to id and protocol), timeout: None, exit_ip: None.
NewProxy(i) ==
    [id |-> i, protocol |-> ProtocolOf(i), timeout |-> {}, exit_ip |-> {}]

\* The vectors of n distinct proxies the scrape stage can hand over.
InputVec(n) == [i \in 1..n |-> NewProxy(i)]

\* Config (config.rs:61-66), the fields the stages read: check_url is
\* Some (TRUE) or None, asn_enabled and geo_enabled are config.rs:87-93.
Configs ==
    [check_url : BOOLEAN, max_concurrent_checks : 1..MaxConcurrentChecks,
     asn_enabled : BOOLEAN, geo_enabled : BOOLEAN]

(***************************************************************************)
(* Proxy::check (proxy.rs:156-185)                                         *)
(***************************************************************************)
\* The ways one probe can end once it has been sent.  "err": transport
\* error or error status (proxy.rs:169-172).  "pass": no error status; the
\* elapsed time is measured and the body read (proxy.rs:174-182).  (A probe whose
\* proxy URL cannot be built fails before its first await, proxy.rs:165:
\* see WorkerPopSyncErr.)
ProbeOutcomes ==
    {[kind |-> "err", elapsed |-> 0, ip |-> {}]}
    \cup {[kind |-> "pass", elapsed |-> e, ip |-> ip] :
            e \in 0..MaxElapsed, ip \in CheckerExitIps}

MutCheckNoTimeout(p, o) ==
    IF o.kind = "pass" THEN [p EXCEPT !.exit_ip = o.ip] ELSE p

\* The proxy after check returned with outcome o: fields are written only on
\* the 2xx path (proxy.rs:174-175).
AfterCheck(p, o) ==
    IF o.kind = "pass"
    THEN [p EXCEPT !.timeout = {o.elapsed}, !.exit_ip = o.ip]
    ELSE p

(***************************************************************************)
(* checker::check_all (checker.rs:9-95)                                    *)
(***************************************************************************)
Event(type, protocol) == [type |-> type, protocol |-> protocol]

MutWorkingWithoutChecked(protocol, pass) ==
    IF pass THEN <<Event("ProxyWorking", protocol)>>
    ELSE <<Event("ProxyChecked", protocol)>>

\* checker.rs:48-57: the events a worker sends when check has returned,
\* ProxyChecked always and ProxyWorking after it on Ok
CheckEvents(protocol, pass) ==
    IF pass
    THEN <<Event("ProxyChecked", protocol), Event("ProxyWorking", protocol)>>
    ELSE <<Event("ProxyChecked", protocol)>>

\* tui.rs:427-433: proxies_checked[protocol] once the first k events sent
\* have been handled
proxies_checked(k, protocol) ==
    Cardinality({i \in 1..k : tx[i] = Event("ProxyChecked", protocol)})

\* tui.rs:434-440: proxies_working[protocol] once the first k events sent
\* have been handled
proxies_working(k, protocol) ==
    Cardinality({i \in 1..k : tx[i] = Event("ProxyWorking", protocol)})

\* checker.rs:19-20
MutWorkersCountNoMin(cfg, input) == cfg.max_concurrent_checks

WorkersCount(cfg, input) == Min(cfg.max_concurrent_checks, Len(input))

\* checker.rs:52-72: what the match on check_result does with the proxy
MutPushAlways(results, p, ok) == Append(results, p)

MutPushNever(results, p, ok) == results

PushIfOk(results, p, ok) == IF ok THEN Append(results, p) ELSE results

MutNoUrlReturnsNothing ==
    /\ ckState = "called"
    /\ ~config.check_url
    /\ ckState' = "returned"
    /\ ckResult' = {<<>>}
    /\ UNCHANGED <<ckInput, queue, checked_proxies, workers_count, wpc,
                   wproxy, tx, ckHist, token, notChecker>>

\* checker.rs:15-17: no check URL, the input is returned as it is
CheckAllNoUrl ==
    /\ ckState = "called"
    /\ ~config.check_url
    /\ ckState' = "returned"
    /\ ckResult' = {ckInput}
    /\ UNCHANGED <<ckInput, queue, checked_proxies, workers_count, wpc,
                   wproxy, tx, ckHist, token, notChecker>>

\* checker.rs:19-23: nothing to check
CheckAllNoWorkers ==
    /\ ckState = "called"
    /\ config.check_url
    /\ WorkersCount(config, ckInput) = 0
    /\ workers_count' = 0
    /\ ckState' = "returned"
    /\ ckResult' = {<<>>}
    /\ UNCHANGED <<ckInput, queue, checked_proxies, wpc, wproxy, tx, ckHist,
                   token, notChecker>>

\* checker.rs:28-78: the queue, the results and workers_count spawned tasks
CheckAllSpawn ==
    /\ ckState = "called"
    /\ config.check_url
    /\ WorkersCount(config, ckInput) > 0
    /\ workers_count' = WorkersCount(config, ckInput)
    /\ queue' = ckInput
    /\ checked_proxies' = <<>>
    /\ wpc' = [w \in Workers |->
                 IF w <= WorkersCount(config, ckInput) THEN "loop" ELSE "none"]
    /\ ckState' = "running"
    /\ UNCHANGED <<ckInput, wproxy, ckResult, tx, ckHist, token, notChecker>>

\* A lock().await is pending only while another task is inside a critical
\* section of the same mutex: another worker at the loop head (about to pop)
\* for the queue, another worker about to push for the results.
QueueLockContended(w) == \E v \in Workers \ {w} : wpc[v] = "loop"

ResultsLockContended(w) == \E v \in Workers \ {w} : wpc[v] = "pushing"

\* checker.rs:44-46, 74: the queue is empty, the loop breaks, the task ends
WorkerBreak(w) ==
    /\ ckState = "running"
    /\ wpc[w] = "loop"
    /\ queue = <<>>
    /\ wpc' = [wpc EXCEPT ![w] = "done"]
    /\ UNCHANGED <<ckState, ckInput, queue, checked_proxies, workers_count,
                   wproxy, ckResult, tx, ckHist, token, notChecker>>

MutPopKeepsQueue(w) ==
    /\ ckState = "running"
    /\ wpc[w] = "loop"
    /\ queue # <<>>
    /\ LET p == queue[Len(queue)] IN
        /\ wproxy' = [wproxy EXCEPT ![w] = {p}]
        /\ popped' = Append(popped, p.id)
    /\ wpc' = [wpc EXCEPT ![w] = "probing"]
    /\ UNCHANGED <<ckState, ckInput, queue, checked_proxies, workers_count,
                   ckResult, tx, probed, passedLive, pushedLive, cancelledInRun,
                   token, notChecker>>

\* checker.rs:44-47: pop the last proxy and start its probe; the task
\* suspends in send().await (proxy.rs:169-171).  The work branch is polled
\* before the token, so this also runs when the token is already cancelled.
WorkerPop(w) ==
    /\ ckState = "running"
    /\ wpc[w] = "loop"
    /\ queue # <<>>
    /\ LET p == queue[Len(queue)] IN
        /\ queue' = SubSeq(queue, 1, Len(queue) - 1)
        /\ wproxy' = [wproxy EXCEPT ![w] = {p}]
        /\ popped' = Append(popped, p.id)
    /\ wpc' = [wpc EXCEPT ![w] = "probing"]
    /\ UNCHANGED <<ckState, ckInput, checked_proxies, workers_count, ckResult,
                   tx, probed, passedLive, pushedLive, cancelledInRun, token,
                   notChecker>>

\* checker.rs:44-51, 60-72 with proxy.rs:165: the popped proxy has no valid
\* URL, check fails before its first await; ProxyChecked is sent and the
\* loop goes on in the same poll.
WorkerPopSyncErr(w) ==
    /\ ckState = "running"
    /\ wpc[w] = "loop"
    /\ queue # <<>>
    /\ LET p == queue[Len(queue)] IN
        /\ queue' = SubSeq(queue, 1, Len(queue) - 1)
        /\ popped' = Append(popped, p.id)
        /\ probed' = [probed EXCEPT ![p.id] = Append(@, "err")]
        /\ tx' = tx \o CheckEvents(p.protocol, FALSE)
        /\ checked_proxies' = PushIfOk(checked_proxies, p, FALSE)
    /\ UNCHANGED <<ckState, ckInput, workers_count, wpc, wproxy, ckResult,
                   passedLive, pushedLive, cancelledInRun, token, notChecker>>

\* checker.rs:47-57, 60-72: the probe finished.  ProxyChecked is sent; on
\* Ok ProxyWorking is sent and the task goes on to lock the results
\* (checker.rs:58); on Err the proxy is dropped and the loop goes on.
WorkerProbeDone(w) ==
    /\ ckState = "running"
    /\ wpc[w] = "probing"
    /\ \E o \in ProbeOutcomes, p \in wproxy[w] :
        LET q == AfterCheck(p, o) IN
        /\ probed' = [probed EXCEPT ![p.id] = Append(@, o.kind)]
        /\ IF o.kind = "pass"
           THEN /\ tx' = tx \o CheckEvents(q.protocol, TRUE)
                /\ wproxy' = [wproxy EXCEPT ![w] = {q}]
                /\ wpc' = [wpc EXCEPT ![w] = "pushing"]
                /\ passedLive' = IF token THEN passedLive
                                 ELSE passedLive \cup {p.id}
           ELSE /\ tx' = tx \o CheckEvents(q.protocol, FALSE)
                /\ wproxy' = [wproxy EXCEPT ![w] = {}]
                /\ wpc' = [wpc EXCEPT ![w] = "loop"]
                /\ UNCHANGED passedLive
        /\ checked_proxies' =
              IF o.kind = "pass" THEN checked_proxies
              ELSE PushIfOk(checked_proxies, q, FALSE)
    /\ UNCHANGED <<ckState, ckInput, queue, workers_count, ckResult, popped,
                   pushedLive, cancelledInRun, token, notChecker>>

\* checker.rs:58: checked_proxies.lock().await.push(proxy)
WorkerPush(w) ==
    /\ ckState = "running"
    /\ wpc[w] = "pushing"
    /\ \E p \in wproxy[w] :
        /\ checked_proxies' = PushIfOk(checked_proxies, p, TRUE)
        /\ pushedLive' = IF token THEN pushedLive ELSE pushedLive \cup {p.id}
    /\ wproxy' = [wproxy EXCEPT ![w] = {}]
    /\ wpc' = [wpc EXCEPT ![w] = "loop"]
    /\ UNCHANGED <<ckState, ckInput, queue, workers_count, ckResult, tx,
                   popped, probed, passedLive, cancelledInRun, token,
                   notChecker>>

\* The suspension points of the worker's loop at which the work branch can
\* be pending when the task is polled: the probe (checker.rs:47), and the
\* two lock().await (checker.rs:44, 58) while the mutex is held elsewhere.
WorkerSuspended(w) ==
    \/ wpc[w] = "probing"
    \/ wpc[w] = "loop" /\ QueueLockContended(w)
    \/ wpc[w] = "pushing" /\ ResultsLockContended(w)

\* checker.rs:75: the work branch is pending and the token is cancelled;
\* the task ends and whatever the loop held is dropped.
WorkerCancelled(w) ==
    /\ ckState = "running"
    /\ token
    /\ WorkerSuspended(w)
    /\ wpc' = [wpc EXCEPT ![w] = "done"]
    /\ wproxy' = [wproxy EXCEPT ![w] = {}]
    /\ UNCHANGED <<ckState, ckInput, queue, checked_proxies, workers_count,
                   ckResult, tx, ckHist, token, notChecker>>

\* checker.rs:80-94: every task has been joined, the results are returned
CheckAllReturn ==
    /\ ckState = "running"
    /\ \A w \in Workers : wpc[w] \in {"none", "done"}
    /\ ckState' = "returned"
    /\ ckResult' = {checked_proxies}
    /\ UNCHANGED <<ckInput, queue, checked_proxies, workers_count, wpc,
                   wproxy, tx, ckHist, token, notChecker>>

\* checker.rs:40-76: the task panics somewhere in its loop; what the loop
\* held is dropped by the unwinding
WorkerPanic(w) ==
    /\ ckState = "running"
    /\ wpc[w] \in {"loop", "probing", "pushing"}
    /\ wpc' = [wpc EXCEPT ![w] = "panicked"]
    /\ wproxy' = [wproxy EXCEPT ![w] = {}]
    /\ UNCHANGED <<ckState, ckInput, queue, checked_proxies, workers_count,
                   ckResult, tx, ckHist, token, notChecker>>

\* checker.rs:80-94: every task has been joined and one of them gave a
\* JoinError that is a panic; the arm at checker.rs:83-85 logs it, the loop
\* goes on and the results are returned
CheckAllReturnPanicked ==
    /\ ckState = "running"
    /\ \A w \in Workers : wpc[w] \in {"none", "done", "panicked"}
    /\ \E w \in Workers : wpc[w] = "panicked"
    /\ ckState' = "returned"
    /\ ckResult' = {checked_proxies}
    /\ UNCHANGED <<ckInput, queue, checked_proxies, workers_count, wpc,
                   wproxy, tx, ckHist, token, notChecker>>

\* main.rs:200, 204, 212, 218: a signal cancels the token
Cancel ==
    /\ ~token
    /\ token' = TRUE
    /\ cancelledInRun' = (cancelledInRun \/ ckState = "running")
    /\ cancelStage' = mainPc
    /\ UNCHANGED <<ckVars, popped, probed, passedLive, pushedLive, asideVars,
                   dbFiles, dlVars, dlHist, mainVars>>

WorkerStep(w) ==
    \/ WorkerBreak(w)
    \/ WorkerPop(w)
    \/ WorkerPopSyncErr(w)
    \/ WorkerProbeDone(w)
    \/ WorkerPush(w)
    \/ WorkerCancelled(w)

(***************************************************************************)
(* ipdb::DbType (ipdb.rs)                                                  *)
(***************************************************************************)
\* ipdb.rs:10-14
DbTypes == {"Asn", "Geo"}

\* main.rs:116, 135 with config.rs:87-93
DbEnabled(cfg, db) == IF db = "Asn" THEN cfg.asn_enabled ELSE cfg.geo_enabled

\* The DB file's content: the body of version `ver`, `written` of its
\* `total` chunks.
DbContent(ver, written, total) ==
    [ver |-> ver, written |-> written, total |-> total]

DbComplete(f) == f.written = f.total

\* The server's answers.  The ETag of version v is v itself; a 200 carries
\* it or carries no ETag header.
Statuses == {200, 204, 304, 404}

Responses ==
    {[status |-> st, ver |-> 0, etag |-> {}, chunks |-> 0] :
        st \in Statuses \ {200}}
    \cup {[status |-> 200, ver |-> v, chunks |-> n,
            etag |-> IF withEtag THEN {v} ELSE {}] :
            v \in 1..MaxVersions, n \in 0..MaxChunks, withEtag \in BOOLEAN}

MutNotModifiedIsSaved(status) ==
    IF status >= 400 /\ status <= 599 THEN "status_error"
    ELSE IF status = 304 \/ status = 200 THEN "save"
    ELSE "other_status"

\* ipdb.rs:145-168: error_for_status fails on 4xx and 5xx; 304 returns Ok
\* at once; any other status than 200 is an error; 200 is saved.
StatusClass(status) ==
    IF status >= 400 /\ status <= 599 THEN "status_error"
    ELSE IF status = 304 THEN "not_modified"
    ELSE IF status # 200 THEN "other_status"
    ELSE "save"

\* What an ETag file can hold besides the ETag of a version (a number from
\* 1 on): a text that is no header value (say, with a line break), and
\* bytes that are no UTF-8 text.
GarbledEtag == 0

BinaryEtag == -1

\* ipdb.rs:98-104: read_to_string, then text.parse().ok(): a missing file
\* and a text that is no header value give None
ParseEtag(file) == {e \in file : e >= 1}

\* ipdb.rs:101-103, 126-128: read_to_string fails on anything else than a
\* missing file, and download returns the error; the ETag file is read only
\* when the DB file is there
ReadEtagFails(db) == dbFile[db] # {} /\ BinaryEtag \in etagFile[db]

MutIfNoneMatchIgnoresDb(db) == ParseEtag(etagFile[db])

\* ipdb.rs:123-132: If-None-Match is attached when the DB file is a file
\* and read_etag gives an ETag (ipdb.rs:94-105)
IfNoneMatch(db) == IF dbFile[db] # {} THEN ParseEtag(etagFile[db]) ELSE {}

\* ipdb.rs:126-128: the ETag file cannot be read, download returns the error
\* before any request
DownloadReadEtagError(db) ==
    /\ dlPc[db] = "start"
    /\ ReadEtagFails(db)
    /\ dlRes' = [dlRes EXCEPT ![db] = "Err"]
    /\ dlPc' = [dlPc EXCEPT ![db] = "done"]
    /\ UNCHANGED <<dbFiles, dlSent, dlResp, runs, dlHist, token, notDownload>>

\* ipdb.rs:123-144: build the headers and send the request
DownloadSend(db) ==
    /\ dlPc[db] = "start"
    /\ ~ReadEtagFails(db)
    /\ dlSent' = [dlSent EXCEPT ![db] = IfNoneMatch(db)]
    /\ dlPc' = [dlPc EXCEPT ![db] = "requesting"]
    /\ UNCHANGED <<dbFiles, dlResp, dlRes, runs, dlHist, token, notDownload>>

\* ipdb.rs:134-144: the request fails in transport
DownloadSendError(db) ==
    /\ dlPc[db] = "requesting"
    /\ dlRes' = [dlRes EXCEPT ![db] = "Err"]
    /\ dlPc' = [dlPc EXCEPT ![db] = "done"]
    /\ UNCHANGED <<dbFiles, dlSent, dlResp, runs, dlHist, token, notDownload>>

\* ipdb.rs:145-168: a response that is not saved
DownloadNoSave(db) ==
    /\ dlPc[db] = "requesting"
    /\ \E r \in server :
        /\ StatusClass(r.status) \in
              {"status_error", "not_modified", "other_status"}
        /\ dlStatus' = [dlStatus EXCEPT ![db] = {r.status}]
        /\ dlRes' = [dlRes EXCEPT ![db] =
              IF StatusClass(r.status) = "not_modified" THEN "Ok" ELSE "Err"]
    /\ dlPc' = [dlPc EXCEPT ![db] = "done"]
    /\ UNCHANGED <<dbFiles, dlSent, dlResp, runs, dlSnapDb, dlSnapEtag, token,
                   notDownload>>

\* ipdb.rs:170-172 with save_db, ipdb.rs:60-64: the ETag header is kept and
\* File::create truncates (or creates) the DB file
DownloadCreate(db) ==
    /\ dlPc[db] = "requesting"
    /\ \E r \in server :
        /\ StatusClass(r.status) = "save"
        /\ dlStatus' = [dlStatus EXCEPT ![db] = {r.status}]
        /\ dlResp' = [dlResp EXCEPT ![db] = {r}]
        /\ dbFile' = [dbFile EXCEPT ![db] = {DbContent(r.ver, 0, r.chunks)}]
    /\ dlPc' = [dlPc EXCEPT ![db] = "writing"]
    /\ UNCHANGED <<etagFile, dlSent, dlRes, runs, dlSnapDb, dlSnapEtag, token,
                   notDownload>>

\* ipdb.rs:65-83: one chunk is read and written
DownloadChunk(db) ==
    /\ dlPc[db] = "writing"
    /\ \E f \in dbFile[db] :
        /\ f.written < f.total
        /\ dbFile' = [dbFile EXCEPT ![db] =
                        {DbContent(f.ver, f.written + 1, f.total)}]
    /\ UNCHANGED <<etagFile, dlVars, dlHist, token, notDownload>>

\* ipdb.rs:65-71, 172-180: reading the next chunk fails, save_db and
\* download return the error
DownloadChunkError(db) ==
    /\ dlPc[db] = "writing"
    /\ \E f \in dbFile[db] : f.written < f.total
    /\ dlRes' = [dlRes EXCEPT ![db] = "Err"]
    /\ dlPc' = [dlPc EXCEPT ![db] = "done"]
    /\ UNCHANGED <<dbFiles, dlSent, dlResp, runs, dlHist, token, notDownload>>

\* ipdb.rs:65, 84, 182: the body has ended; save_db returns and download
\* awaits is_docker
DownloadBodyEnd(db) ==
    /\ dlPc[db] = "writing"
    /\ \E f \in dbFile[db] : f.written = f.total
    /\ dlPc' = [dlPc EXCEPT ![db] = "saved"]
    /\ UNCHANGED <<dbFiles, dlSent, dlResp, dlRes, runs, dlHist, token,
                   notDownload>>

MutEtagKeepsStale(db) ==
    /\ dlPc[db] = "saved"
    /\ \E r \in dlResp[db] :
        etagFile' = [etagFile EXCEPT ![db] = IF r.etag # {} THEN r.etag ELSE @]
    /\ dlRes' = [dlRes EXCEPT ![db] = "Ok"]
    /\ dlPc' = [dlPc EXCEPT ![db] = "done"]
    /\ UNCHANGED <<dbFile, dlSent, dlResp, runs, dlHist, token, notDownload>>

\* ipdb.rs:196-204: the ETag of the response is written to the ETag file,
\* or the ETag file is removed when the response had none
DownloadEtag(db) ==
    /\ dlPc[db] = "saved"
    /\ \E r \in dlResp[db] : etagFile' = [etagFile EXCEPT ![db] = r.etag]
    /\ dlRes' = [dlRes EXCEPT ![db] = "Ok"]
    /\ dlPc' = [dlPc EXCEPT ![db] = "done"]
    /\ UNCHANGED <<dbFile, dlSent, dlResp, runs, dlHist, token, notDownload>>

\* main.rs:122-131, 136-145: download is pending at one of its awaits and
\* the token is cancelled; the task returns Ok(()) and download is dropped
\* where it stands.
DownloadCancelled(db) ==
    /\ token
    /\ dlPc[db] \in {"start", "requesting", "writing", "saved"}
    /\ dlRes' = [dlRes EXCEPT ![db] = "Ok"]
    /\ dlPc' = [dlPc EXCEPT ![db] = "done"]
    /\ UNCHANGED <<dbFiles, dlSent, dlResp, runs, dlHist, token, notDownload>>

\* The state of the download tasks when a program run spawns them
\* (main.rs:114-147): one task per enabled database.
SpawnedDlPc == [db \in DbTypes |-> IF DbEnabled(config, db) THEN "start"
                                  ELSE "idle"]

DlIdle == [db \in DbTypes |-> "idle"]

NoneYet == [db \in DbTypes |-> {}]

(***************************************************************************)
(* scraper::scrape_all and scrape_one (scraper.rs:148-282)                 *)
(***************************************************************************)
\* config.scraping.sources: source s lists the proxy s
Sources == 1..MaxProxies

\* scraper.rs:169-170: the proxies the text of a source matches
SourceMatches(s) == {s}

\* scraper.rs:156-229: the fetch ended.  A fetch error, an empty or an
\* oversized match list return Ok without an insert; otherwise the matched
\* proxies are inserted into the shared set.
ScrapeFetched(s) ==
    /\ scrPc[s] = "fetching"
    /\ \E inserted \in {{}, SourceMatches(s)} : proxies' = proxies \cup inserted
    /\ scrPc' = [scrPc EXCEPT ![s] = "ok"]
    /\ UNCHANGED <<mainPc, mainRes, mainErr, exportInput, mainHist, token,
                   asideVars, ckVars, ckHist, dbFiles, dlVars, dlHist>>

\* scraper.rs:170, 193, 203, 210: a regex or parse error, scrape_one
\* returns Err
ScrapeFailed(s) ==
    /\ scrPc[s] = "fetching"
    /\ scrPc' = [scrPc EXCEPT ![s] = "err"]
    /\ UNCHANGED <<mainPc, mainRes, mainErr, proxies, exportInput, mainHist,
                   token, asideVars, ckVars, ckHist, dbFiles, dlVars, dlHist>>

\* scraper.rs:255-267: the fetch is pending and the token is cancelled, the
\* task returns Ok(())
ScrapeCancelled(s) ==
    /\ token
    /\ scrPc[s] = "fetching"
    /\ scrPc' = [scrPc EXCEPT ![s] = "cancelled"]
    /\ UNCHANGED <<mainPc, mainRes, mainErr, proxies, exportInput, mainHist,
                   token, asideVars, ckVars, ckHist, dbFiles, dlVars, dlHist>>

\* scraper.rs:277-281: the set is collected into a Vec in the HashSet's
\* iteration order, which is any order
Orderings(S) ==
    {[i \in 1..Cardinality(S) |-> NewProxy(f[i])] :
        f \in {g \in [1..Cardinality(S) -> S] :
                 \A i, j \in 1..Cardinality(S) : g[i] = g[j] => i = j}}

(***************************************************************************)
(* main_task (main.rs:252-300)                                             *)
(***************************************************************************)
RunningDl == {"start", "requesting", "writing", "saved"}

MutLeaveRunning(pc) == pc

\* A task of a dropped JoinSet is aborted at the await it is suspended in;
\* a task that has ended is left as it is.
AbortTask(pc) == IF pc \in RunningDl \cup {"fetching"} THEN "aborted" ELSE pc

\* main.rs:149-152: every task of the enabled databases returned Ok
DepsTasksOk ==
    \A db \in DbTypes :
        DbEnabled(config, db) => dlPc[db] = "done" /\ dlRes[db] = "Ok"

\* scraper.rs:272-275: every scraping task returned Ok
ScrapeTasksOk == \A s \in Sources : scrPc[s] \in {"ok", "cancelled"}

MutJoinScrapeOnly == ScrapeTasksOk

\* main.rs:263-279: try_join! is through when both stages returned Ok
JoinedOk == DepsTasksOk /\ ScrapeTasksOk

\* main.rs:259-279, 114-147, scraper.rs:239-270: main_task is polled for
\* the first time; the download tasks of the enabled databases and one
\* scraping task per source are spawned
MainStart ==
    /\ mainPc = "idle"
    /\ mainPc' = "joining"
    /\ runs' = runs + 1
    /\ dlPc' = SpawnedDlPc
    /\ dlSnapDb' = dbFile
    /\ dlSnapEtag' = etagFile
    /\ scrPc' = [s \in Sources |-> "fetching"]
    /\ UNCHANGED <<mainRes, mainErr, proxies, exportInput, mainHist, token,
                   asideVars, ckVars, ckHist, dbFiles, dlSent, dlResp, dlRes,
                   dlStatus>>

\* main.rs:149-152, 263-279: a download task returned Err;
\* download_output_dependencies returns it, try_join! returns it and drops
\* scrape_all, main_task returns it.  The JoinSets are dropped with them.
TryJoinDepsErr ==
    /\ mainPc = "joining"
    /\ \E db \in DbTypes : dlPc[db] = "done" /\ dlRes[db] = "Err"
    /\ mainPc' = "returned"
    /\ mainRes' = "Err"
    /\ mainErr' = "deps"
    /\ dlPc' = [db \in DbTypes |-> AbortTask(dlPc[db])]
    /\ scrPc' = [s \in Sources |-> AbortTask(scrPc[s])]
    /\ UNCHANGED <<proxies, exportInput, mainHist, token, asideVars, ckVars,
                   ckHist, dbFiles, dlSent, dlResp, dlRes, runs, dlHist>>

\* scraper.rs:272-275, main.rs:263-279: a scraping task returned Err;
\* scrape_all returns it, try_join! returns it and drops
\* download_output_dependencies, main_task returns it.
TryJoinScrapeErr ==
    /\ mainPc = "joining"
    /\ \E s \in Sources : scrPc[s] = "err"
    /\ mainPc' = "returned"
    /\ mainRes' = "Err"
    /\ mainErr' = "scrape"
    /\ dlPc' = [db \in DbTypes |-> AbortTask(dlPc[db])]
    /\ scrPc' = [s \in Sources |-> AbortTask(scrPc[s])]
    /\ UNCHANGED <<proxies, exportInput, mainHist, token, asideVars, ckVars,
                   ckHist, dbFiles, dlSent, dlResp, dlRes, runs, dlHist>>

\* main.rs:263-281: both stages returned Ok, process_proxies is called
TryJoinOk ==
    /\ mainPc = "joining"
    /\ JoinedOk
    /\ mainPc' = "checking"
    /\ UNCHANGED <<mainRes, mainErr, scrPc, proxies, exportInput, mainHist,
                   token, asideVars, ckVars, ckHist, dbFiles, dlVars, dlHist>>

\* main.rs:163-165, 290: no check URL, process_proxies returns at once and
\* save_proxies is called with the scraped proxies
ProcessProxiesSkip ==
    /\ mainPc = "checking"
    /\ ~config.check_url
    /\ \E v \in Orderings(proxies) : exportInput' = {v}
    /\ mainPc' = "exporting"
    /\ UNCHANGED <<mainRes, mainErr, scrPc, proxies, mainHist, token, asideVars,
                   ckVars, ckHist, dbFiles, dlVars, dlHist>>

\* main.rs:169-176: check_all is called with the scraped proxies
ProcessProxiesCall ==
    /\ mainPc = "checking"
    /\ config.check_url
    /\ \E v \in Orderings(proxies) : ckInput' = v
    /\ ckState' = "called"
    /\ mainPc' = "inChecker"
    /\ UNCHANGED <<mainRes, mainErr, scrPc, proxies, exportInput, mainHist,
                   token, asideVars, queue, checked_proxies, workers_count, wpc,
                   wproxy, ckResult, tx, ckHist, dbFiles, dlVars, dlHist>>

\* main.rs:176-177, 281-292: check_all returned, process_proxies returns
\* and save_proxies is called with the checked proxies
ProcessProxiesReturn ==
    /\ mainPc = "inChecker"
    /\ ckState = "returned"
    /\ exportInput' = ckResult
    /\ mainPc' = "exporting"
    /\ UNCHANGED <<mainRes, mainErr, scrPc, proxies, mainHist, token, asideVars,
                   ckVars, ckHist, dbFiles, dlVars, dlHist>>

\* output.rs:68-94: Reader::open_mmap fails on a missing file and on a file
\* that is cut short (the metadata of a MaxMind DB is at its end)
DbOpens(db) == \E f \in dbFile[db] : DbComplete(f)

\* output.rs:67-94, main.rs:290-292: a database the JSON output needs does
\* not open; save_proxies and main_task return the error
SaveProxiesErr ==
    /\ mainPc = "exporting"
    /\ \E db \in DbTypes : DbEnabled(config, db) /\ ~DbOpens(db)
    /\ mainPc' = "returned"
    /\ mainRes' = "Err"
    /\ mainErr' = "save"
    /\ UNCHANGED <<scrPc, proxies, exportInput, mainHist, token, asideVars,
                   ckVars, ckHist, dbFiles, dlVars, dlHist>>

\* output.rs:57-240, main.rs:290-299: the outputs are written
SaveProxiesOk ==
    /\ mainPc = "exporting"
    /\ \A db \in DbTypes : DbEnabled(config, db) => DbOpens(db)
    /\ mainPc' = "returned"
    /\ mainRes' = "Ok"
    /\ UNCHANGED <<mainErr, scrPc, proxies, exportInput, mainHist, token,
                   asideVars, ckVars, ckHist, dbFiles, dlVars, dlHist>>

(***************************************************************************)
(* scraper::fetch_text (scraper.rs:18-146); http.rs:10-160 holds the same  *)
(* loop as RetryMiddleware::handle.  Durations are in milliseconds.        *)
(***************************************************************************)
\* scraper.rs:18
DEFAULT_MAX_RETRIES == 2

\* scraper.rs:19
INITIAL_RETRY_DELAY == 500

\* scraper.rs:20
MAX_RETRY_DELAY == 8000

\* scraper.rs:62, Duration::from_secs(60)
ServerDelayLimit == 60000

\* scraper.rs:22-29
RETRY_STATUSES == {408, 429, 500, 502, 503, 504}

\* a header value that does not parse as an integer
Unparseable == -1

Pow2(n) == IF n = 0 THEN 1 ELSE IF n = 1 THEN 2 ELSE IF n = 2 THEN 4
           ELSE IF n = 3 THEN 8 ELSE 16

\* The Retry-After-Ms header (Option): a number of ms, or text that is no
\* integer.
RetryAfterMsHeaders == {{}, {Unparseable}, {1000}, {ServerDelayLimit + 1}}

\* The Retry-After header (Option): seconds, an HTTP date n seconds from now
\* (n < 0: a date in the past), or text that is neither.
RetryAfterHeaders ==
    {{}, {[kind |-> "bad", n |-> 0]},
     {[kind |-> "secs", n |-> 2]}, {[kind |-> "secs", n |-> 61]},
     {[kind |-> "date", n |-> 3]}, {[kind |-> "date", n |-> -3]}}

FetchStatuses == RETRY_STATUSES \cup {200, 404, 501}

\* What send().await can give: a transport error (a connect error or
\* another one), or a response with a status and headers.
FetchAnswers ==
    {[kind |-> k, status |-> 0, ms |-> {}, ra |-> {}] :
        k \in {"connect", "transport"}}
    \cup {[kind |-> "status", status |-> st, ms |-> ms, ra |-> ra] :
            st \in FetchStatuses, ms \in RetryAfterMsHeaders,
            ra \in RetryAfterHeaders}

MutRetryAfterWins(h) ==
    IF \E a \in h.ra : a.kind = "secs" \/ (a.kind = "date" /\ a.n >= 0)
    THEN {a.n * 1000 : a \in h.ra}
    ELSE {v \in h.ms : v >= 0}

\* scraper.rs:31-53: Retry-After-Ms if it parses; else Retry-After as
\* seconds, or as an HTTP date that is not in the past; else None
parse_retry_after(h) ==
    IF \E v \in h.ms : v >= 0
    THEN h.ms
    ELSE {a.n * 1000 : a \in {b \in h.ra : \/ b.kind = "secs"
                                           \/ b.kind = "date" /\ b.n >= 0}}

MutRetryTimeoutNoLimit(headers, att, j) ==
    IF \E h \in headers : parse_retry_after(h) # {}
    THEN UNION {parse_retry_after(h) : h \in headers}
    ELSE LET base == Min(INITIAL_RETRY_DELAY * Pow2(att), MAX_RETRY_DELAY)
         IN  {base - ((base * j) \div (4 * JitterSteps))}

\* scraper.rs:55-73: the server's delay, None if it is over 60 s; without
\* one, 500 ms * 2^attempt capped at 8 s, times a jitter 1 - 0.25 * rand
\* where rand is j / JitterSteps
calculate_retry_timeout(headers, att, j) ==
    IF \E h \in headers : parse_retry_after(h) # {}
    THEN {d \in UNION {parse_retry_after(h) : h \in headers} :
            ~(d > ServerDelayLimit)}
    ELSE LET base == Min(INITIAL_RETRY_DELAY * Pow2(att), MAX_RETRY_DELAY)
         IN  {base - ((base * j) \div (4 * JitterSteps))}

MutMayRetryOnceMore(att) == att <= DEFAULT_MAX_RETRIES

\* scraper.rs:93, 119
MayRetry(att) == att < DEFAULT_MAX_RETRIES

MutAnyErrorStatus(status) == status >= 400

\* scraper.rs:94
IsRetryStatus(status) == status \in RETRY_STATUSES

MutOnlyClientError(status) == status >= 400 /\ status <= 499

\* scraper.rs:92: is_client_error or is_server_error
IsErrorStatus(status) == status >= 400 /\ status <= 599

\* scraper.rs:93-98, 119-122: the delay to sleep before a retry (Option)
RetryDelay(r, att, j) ==
    IF r.kind = "status"
    THEN IF IsErrorStatus(r.status) /\ MayRetry(att)
            /\ IsRetryStatus(r.status)
         THEN calculate_retry_timeout({r}, att, j)
         ELSE {}
    ELSE IF MayRetry(att) /\ r.kind = "connect"
         THEN calculate_retry_timeout({}, att, j)
         ELSE {}

notFetch == <<cfgVars, scrapeVars, scrapeHist, portVars, pureVars, token, ckVars,
              ckHist, dbFiles, dlVars, dlHist, mainVars, mainHist>>

\* scraper.rs:80-87: the source is a URL, the first request is sent
FetchSend ==
    /\ fPc = "idle"
    /\ fPc' = "awaiting"
    /\ requests' = requests + 1
    /\ UNCHANGED <<attempt, fRes, sleeps, fLast, notFetch>>

\* scraper.rs:142-145: the source is a file, it is read
FetchReadFile ==
    /\ fPc = "idle"
    /\ fPc' = "done"
    /\ fRes' \in {"Ok", "Err"}
    /\ UNCHANGED <<attempt, requests, sleeps, fLast, notFetch>>

\* scraper.rs:89-138: the answer to the request: sleep before a retry, or
\* return the error, or go on to read the body
FetchAnswered ==
    /\ fPc = "awaiting"
    /\ \E r \in FetchAnswers, j \in 0..(JitterSteps - 1) :
        /\ fLast' = {r}
        /\ IF RetryDelay(r, attempt, j) # {}
           THEN /\ \E d \in RetryDelay(r, attempt, j) :
                      sleeps' = Append(sleeps, d)
                /\ fPc' = "sleeping"
                /\ UNCHANGED fRes
           ELSE IF r.kind # "status" \/ IsErrorStatus(r.status)
           THEN /\ fPc' = "done"
                /\ fRes' = "Err"
                /\ UNCHANGED sleeps
           ELSE /\ fPc' = "reading"
                /\ UNCHANGED <<fRes, sleeps>>
    /\ UNCHANGED <<attempt, requests, notFetch>>

\* scraper.rs:109-111, 133-135, 83-87: the sleep is over, the attempt is
\* counted and the next request is sent
FetchWake ==
    /\ fPc = "sleeping"
    /\ attempt' = attempt + 1
    /\ requests' = requests + 1
    /\ fPc' = "awaiting"
    /\ UNCHANGED <<fRes, sleeps, fLast, notFetch>>

\* scraper.rs:115-116: the body is read, or reading it fails
FetchBody ==
    /\ fPc = "reading"
    /\ fPc' = "done"
    /\ fRes' \in {"Ok", "Err"}
    /\ UNCHANGED <<attempt, requests, sleeps, fLast, notFetch>>

(***************************************************************************)
(* PROXY_REGEX (parsers.rs:5-11) and the parses of its captures            *)
(***************************************************************************)
RECURSIVE DigitsValue(_)
\* the decimal value of a sequence of digits
DigitsValue(ds) ==
    IF ds = <<>> THEN 0
    ELSE 10 * DigitsValue(SubSeq(ds, 1, Len(ds) - 1)) + ds[Len(ds)]

\* parsers.rs:6, the alternatives of (?P<port>...), matched against the
\* whole run of digits after the colon
PortGroup(ds) ==
    LET n == Len(ds)
    IN  \/ n = 1                                          \* [0-9]
        \/ n \in 2..4 /\ ds[1] >= 1                       \* [1-9][0-9]{1,3}
        \/ n = 5 /\ ds[1] \in 1..5                        \* [1-5][0-9]{4}
        \/ n = 5 /\ ds[1] = 6 /\ ds[2] <= 4               \* 6[0-4][0-9]{3}
        \/ n = 5 /\ ds[1] = 6 /\ ds[2] = 5 /\ ds[3] <= 4  \* 65[0-4][0-9]{2}
        \/ n = 5 /\ ds[1] = 6 /\ ds[2] = 5 /\ ds[3] = 5
                 /\ ds[4] <= 2                            \* 655[0-2][0-9]
        \/ n = 5 /\ ds[1] = 6 /\ ds[2] = 5 /\ ds[3] = 5
                 /\ ds[4] = 3 /\ ds[5] <= 5               \* 6553[0-5]

\* parsers.rs:6: the port group followed by (?=[^0-9A-Za-z]|$).  A shorter
\* run of the digits is followed by a digit, so only the whole run can
\* match, and only if no letter follows it.
PortMatches(ds, next) == PortGroup(ds) /\ next # "alnum"

\* scraper.rs:206-210, str::parse::<u16> (proxy.rs:64): Err on overflow
ParseU16(ds) ==
    IF ds # <<>> /\ DigitsValue(ds) <= 65535 THEN {DigitsValue(ds)} ELSE {}

MutSchemeIsSocks5(str) == {"Socks5"}

\* proxy.rs:25-39, ProxyType::from_str
ParseProxyType(str) ==
    IF str \in {"http", "https"} THEN {"Http"}
    ELSE IF str = "socks4" THEN {"Socks4"}
    ELSE IF str = "socks5" THEN {"Socks5"}
    ELSE {}

(***************************************************************************)
(* One candidate "1.2.3.4:<digits><next>" scraped (scraper.rs:169-220)     *)
(***************************************************************************)
PortDigits == {0, 1, 3, 5, 6}

RECURSIVE DigitRuns(_)
\* the runs of n digits
DigitRuns(n) ==
    IF n = 0 THEN {<<>>}
    ELSE {Append(ds, d) : ds \in DigitRuns(n - 1), d \in PortDigits}

PortTexts == UNION {DigitRuns(n) : n \in 1..MaxPortDigits}

notPort == <<cfgVars, fetchVars, scrapeVars, scrapeHist, pureVars, token, ckVars, ckHist,
             dbFiles, dlVars, dlHist, mainVars, mainHist>>

\* scraper.rs:169-220 on a text with one candidate: the proxy is emitted
\* if PROXY_REGEX matches, with the port that parse gives
PortScrape ==
    /\ portPc = "text"
    /\ portPc' = "scraped"
    /\ portEmitted' = IF PortMatches(portText, portNext)
                      THEN ParseU16(portText)
                      ELSE {}
    /\ UNCHANGED <<portText, portNext, notPort>>

(***************************************************************************)
(* scraper::scrape_one and scrape_all (scraper.rs:148-282)                 *)
(***************************************************************************)
ProxyTypes == {"Http", "Socks5"}

ScrapeSources == {"a", "b"}

\* The candidate lines a text is made of: "1.2.3.4:80", the same after
\* "https://", after "socks5://" and after "u:p@", and "1.2.3.4:080".
CandidateLines ==
    << [scheme |-> {}, user |-> {}, port |-> <<8, 0>>],
       [scheme |-> {"https"}, user |-> {}, port |-> <<8, 0>>],
       [scheme |-> {"socks5"}, user |-> {}, port |-> <<8, 0>>],
       [scheme |-> {}, user |-> {"u"}, port |-> <<8, 0>>],
       [scheme |-> {}, user |-> {}, port |-> <<0, 8, 0>>] >>

\* The texts a source can hold: up to MaxLines candidate lines.  The order
\* of the lines does not change what scrape_one does with them, so each
\* text is taken once, with its lines in the order of CandidateLines.
Texts ==
    UNION {{t \in [1..n -> 1..Len(CandidateLines)] :
                \A i \in 1..n, j \in 1..n : i <= j => t[i] <= t[j]} :
           n \in 0..MaxLines}

\* scraper.rs:169-170, PROXY_REGEX.captures_iter: the lines that match
Captures(text) ==
    SelectSeq([i \in 1..Len(text) |-> CandidateLines[text[i]]],
              LAMBDA line : PortMatches(line.port, "end"))

\* config.rs:27-34, ScrapingConfig: the cap, the keys of `sources` and the
\* key each source is listed under (config.rs:105-183)
ScrapingConfigs ==
    {c \in [max_proxies_per_source : 0..MaxCap,
            enabled : SUBSET ProxyTypes,
            proto : [ScrapeSources -> ProxyTypes]] :
        \A src \in ScrapeSources : c.proto[src] \in c.enabled}

\* config.rs:101-103
protocol_is_enabled(cfg, protocol) == protocol \in cfg.enabled

\* scraper.rs:192-219: the Proxy built from a capture (Option: None where a
\* parse fails, which the regex rules out)
CaptureProxy(capture, proto) ==
    {[protocol |-> protocol, host |-> "1.2.3.4", port |-> port,
      username |-> capture.user,
      password |-> {"p" : u \in capture.user},
      timeout |-> {}, exit_ip |-> {}] :
        protocol \in IF capture.scheme = {} THEN {proto}
                     ELSE UNION {ParseProxyType(str) : str \in capture.scheme},
        port \in ParseU16(capture.port)}

MutEqAllFields(p, q) == p = q

\* proxy.rs:222-230, PartialEq for Proxy (Hash, 233-241, has the same fields)
ProxyEq(p, q) ==
    /\ p.protocol = q.protocol
    /\ p.host = q.host
    /\ p.port = q.port
    /\ p.username = q.username
    /\ p.password = q.password

MutInsertAlways(set, p) == set (+) SetToBag({p})

\* HashSet::insert (scraper.rs:199): the value is added unless an equal
\* one is in the set
HashSetInsert(set, p) ==
    IF \E q \in BagToSet(set) : ProxyEq(p, q)
    THEN set
    ELSE set (+) SetToBag({p})

MutInsertOneCapture(set, captures, i, src) ==
    IF i > Len(captures) THEN set
    ELSE LET made == {p \in CaptureProxy(captures[i], scfg.proto[src]) :
                        protocol_is_enabled(scfg, p.protocol)}
         IN  IF made = {} THEN set
             ELSE HashSetInsert(set, CHOOSE p \in made : TRUE)

RECURSIVE InsertCaptures(_, _, _, _)
\* scraper.rs:191-221: the loop over the captures from the i-th on
InsertCaptures(set, captures, i, src) ==
    IF i > Len(captures) THEN set
    ELSE LET made == {p \in CaptureProxy(captures[i], scfg.proto[src]) :
                        protocol_is_enabled(scfg, p.protocol)}
             next == IF made = {} THEN set
                     ELSE HashSetInsert(set, CHOOSE p \in made : TRUE)
         IN  InsertCaptures(next, captures, i + 1, src)

\* the proxies the loop passes to insert
Inserted(captures, src) ==
    {p \in UNION {CaptureProxy(captures[i], scfg.proto[src]) :
                    i \in 1..Len(captures)} :
        protocol_is_enabled(scfg, p.protocol)}

\* scraper.rs:198: the protocols of the captures passed to insert
seen_protocols(captures, src) == {p.protocol : p \in Inserted(captures, src)}

\* scraper.rs:224: proxies.iter().filter(|p| p.protocol == proto).count()
CountProtocol(set, protocol) ==
    LET of == {p \in BagToSet(set) : p.protocol = protocol}
    IN  IF of = {} THEN 0 ELSE BagCardinality([p \in of |-> set[p]])

MutAmountBeforeInsert(before, after, protocol) ==
    CountProtocol(before, protocol)

\* scraper.rs:223-227: the amount of a TotalProxies event, counted behind
\* the loop of insertions and before the lock is dropped
TotalProxiesAmount(before, after, protocol) == CountProtocol(after, protocol)

MutCapZeroBlocks(cap, n) == n > cap

\* scraper.rs:177-178
OverCap(cap, n) == cap # 0 /\ n > cap

MutFetchFailedIsErr == "Err"

\* scraper.rs:163-166: what scrape_one returns when fetch_text failed
FetchFailedResult == "Ok"

notScrape == <<cfgVars, fetchVars, portVars, pureVars, ckVars, ckHist, dbFiles, dlVars,
               dlHist, mainVars, mainHist>>

\* scraper.rs:156-167: fetch_text failed, the task warns and returns
ScrapeOneFetchFailed(src) ==
    /\ soPc[src] = "fetching"
    /\ soPc' = [soPc EXCEPT ![src] = "done"]
    /\ soRes' = [soRes EXCEPT ![src] = FetchFailedResult]
    /\ soFetch' = [soFetch EXCEPT ![src] = "Err"]
    /\ UNCHANGED <<scfg, scraped, saPc, saRes, saVec, soText, soInserted,
                   proxies_total, token, notScrape>>

\* scraper.rs:169-170: the regex engine fails on the text, the task
\* returns the error
ScrapeOneRegexError(src) ==
    /\ soPc[src] = "fetching"
    /\ soPc' = [soPc EXCEPT ![src] = "done"]
    /\ soRes' = [soRes EXCEPT ![src] = "Err"]
    /\ soFetch' = [soFetch EXCEPT ![src] = "Ok"]
    /\ UNCHANGED <<scfg, scraped, saPc, saRes, saVec, soText, soInserted,
                   proxies_total, token, notScrape>>

\* scraper.rs:156-229: the text is fetched; no match or too many matches:
\* the task returns; otherwise it inserts the enabled captures
ScrapeOneFetched(src) ==
    /\ soPc[src] = "fetching"
    /\ \E text \in Texts :
        LET matches == Captures(text)
        IN  /\ soText' = [soText EXCEPT ![src] = {text}]
            /\ IF Len(matches) = 0
                  \/ OverCap(scfg.max_proxies_per_source, Len(matches))
               THEN UNCHANGED <<scraped, soInserted, proxies_total>>
               ELSE /\ scraped' = InsertCaptures(scraped, matches, 1, src)
                    /\ soInserted' = [soInserted EXCEPT
                                        ![src] = Inserted(matches, src)]
                    /\ proxies_total' =
                          [protocol \in ProxyTypes |->
                              IF protocol \in seen_protocols(matches, src)
                              THEN {TotalProxiesAmount(scraped, scraped',
                                                       protocol)}
                              ELSE proxies_total[protocol]]
    /\ soPc' = [soPc EXCEPT ![src] = "done"]
    /\ soRes' = [soRes EXCEPT ![src] = "Ok"]
    /\ soFetch' = [soFetch EXCEPT ![src] = "Ok"]
    /\ UNCHANGED <<scfg, saPc, saRes, saVec, token, notScrape>>

MutCancelledIsErr == "Err"

\* scraper.rs:266: what the task returns on the cancelled branch
CancelledResult == "Ok"

\* scraper.rs:255-267: the token is cancelled while the task waits
ScrapeOneCancelled(src) ==
    /\ token
    /\ soPc[src] = "fetching"
    /\ soPc' = [soPc EXCEPT ![src] = "done"]
    /\ soRes' = [soRes EXCEPT ![src] = CancelledResult]
    /\ UNCHANGED <<scfg, scraped, saPc, saRes, saVec, scrapeHist, token,
                   notScrape>>

\* scraper.rs:272-275: a joined task returned Err, scrape_all returns it
\* and the JoinSet is dropped, which aborts the tasks still running
ScrapeAllErr ==
    /\ saPc = "joining"
    /\ \E src \in ScrapeSources : soPc[src] = "done" /\ soRes[src] = "Err"
    /\ saPc' = "returned"
    /\ saRes' = "Err"
    /\ soPc' = [src \in ScrapeSources |-> "done"]
    /\ UNCHANGED <<scfg, soRes, scraped, saVec, scrapeHist, token, notScrape>>

\* scraper.rs:272-281: every task is joined and returned Ok, the set is
\* handed over as a Vec
ScrapeAllOk ==
    /\ saPc = "joining"
    /\ \A src \in ScrapeSources : soPc[src] = "done" /\ soRes[src] = "Ok"
    /\ saPc' = "returned"
    /\ saRes' = "Ok"
    /\ saVec' = scraped
    /\ UNCHANGED <<scfg, soPc, soRes, scraped, scrapeHist, token, notScrape>>

(***************************************************************************)
(* One match through the loop body of scrape_one (scraper.rs:191-221)      *)
(***************************************************************************)
AllProxyTypes == {"Http", "Socks4", "Socks5"}

\* what can stand before "1.2.3.4:80": nothing, or a scheme and "://"
SchemeTexts ==
    {{}, {"http"}, {"https"}, {"socks4"}, {"socks5"}, {"SOCKS5"}, {"ftp"}}

\* parsers.rs:6, (?:(?P<protocol>https?|socks[45]):\/\/)?: the group takes
\* part in the match only for these four schemes in lower case; after any
\* other scheme the match starts behind the "//" and has no protocol
ProtocolGroup(scheme) ==
    {str \in scheme : str \in {"http", "https", "socks4", "socks5"}}

\* the protocol a source is listed under and the keys of config.scraping
\* .sources (config.rs:27-34, 101-103)
ResolveConfigs ==
    {c \in [proto : AllProxyTypes, enabled : SUBSET AllProxyTypes] :
        c.proto \in c.enabled}

\* everything but the single operations
notPure == <<cfgVars, fetchVars, scrapeVars, scrapeHist, portVars, token,
             ckVars, ckHist, dbFiles, dlVars, dlHist, mainVars, mainHist>>

notResolve == <<notPure, probeVars, storageVars, sortVars, runnerVars,
    tuiVars>>

\* scraper.rs:191-221 for one capture: the protocol is resolved and the
\* proxy is inserted if that protocol is enabled
ResolveCapture ==
    /\ rsPc = "text"
    /\ rsPc' = "resolved"
    /\ rsOut' = {p \in CaptureProxy([scheme |-> ProtocolGroup(rsText),
                                      user |-> {}, port |-> <<8, 0>>],
                                     rsCfg.proto) :
                    protocol_is_enabled(rsCfg, p.protocol)}
    /\ UNCHANGED <<rsText, rsCfg, notResolve>>

(***************************************************************************)
(* One call of Proxy::check in detail (proxy.rs:156-185) with parse_ipv4   *)
(* (parsers.rs:13-29).  A text is "<octets joined by dots>[:port]<trail>". *)
(***************************************************************************)
\* parsers.rs:14, (?:[0-9]|[1-9][0-9]|1[0-9]{2}|2[0-4][0-9]|25[0-5]) matched
\* against a whole run of digits
OctetGroup(ds) ==
    LET n == Len(ds)
    IN  \/ n = 1
        \/ n = 2 /\ ds[1] >= 1
        \/ n = 3 /\ ds[1] = 1
        \/ n = 3 /\ ds[1] = 2 /\ ds[2] <= 4
        \/ n = 3 /\ ds[1] = 2 /\ ds[2] = 5 /\ ds[3] <= 5

FirstOctets == {<<1>>, <<1, 9, 9>>, <<2, 5, 5>>, <<2, 5, 6>>, <<0, 1>>}

\* the texts a body or an origin field can be: four octets with each of
\* the first octets, three octets, and a text with no digits
IpTexts ==
    {[octets |-> os, port |-> pt, trail |-> tr] :
        os \in {<<a, <<2>>, <<3>>, <<4>>>> : a \in FirstOctets}
               \cup {<< <<1>>, <<2>>, <<3>> >>, << >>},
        pt \in {{}, {<<8, 0>>}, {<<0, 8, 0>>}},
        tr \in {"", "space", ", 5.6.7.8"}}

MutParseWithoutRegex(text) ==
    IF Len(text.octets) = 4
    THEN {[i \in 1..4 |-> DigitsValue(text.octets[i])]}
    ELSE {}

\* parsers.rs:23-29 with IPV4_REGEX (parsers.rs:13-16): the host group, if
\* the whole text is white space, four octets, an optional port in range
\* and white space
parse_ipv4(text) ==
    IF /\ Len(text.octets) = 4
       /\ \A i \in 1..4 : OctetGroup(text.octets[i])
       /\ \A pt \in text.port : PortGroup(pt)
       /\ text.trail \in {"", "space"}
    THEN {[i \in 1..4 |-> DigitsValue(text.octets[i])]}
    ELSE {}

\* The body of a response (Option, None: reading it fails): JSON with an
\* origin field (proxy.rs:176), or any other text.
ProbeBodies ==
    {{}} \cup {{[json |-> j, text |-> t]} : j \in BOOLEAN, t \in IpTexts}

ProbeStatuses == {200, 204, 304, 404, 500}

\* What the request through the proxy gives: a transport error, or a
\* response with a status and a body.
ProbeResponses ==
    {[kind |-> "transport", status |-> 0, body |-> {}]}
    \cup {[kind |-> "status", status |-> st, body |-> b] :
            st \in ProbeStatuses, b \in ProbeBodies}

\* reqwest::Response::error_for_status (proxy.rs:172): Err for a client or
\* server error status
ErrorForStatus(status) == status >= 400 /\ status <= 599

notProbe == <<notPure, resolveVars, storageVars, sortVars, runnerVars,
    tuiVars>>

\* proxy.rs:161-163: no check URL, check returns Ok at once
ProbeNoUrl ==
    /\ pbPc = "start"
    /\ ~pbCfg.check_url
    /\ pbPc' = "done"
    /\ pbRes' = "Ok"
    /\ UNCHANGED <<pbCfg, pbProxy, pbResp, pbRequests, notProbe>>

\* proxy.rs:165: the proxy URL cannot be built, check returns the error
ProbeUrlError ==
    /\ pbPc = "start"
    /\ pbCfg.check_url
    /\ ~pbCfg.url_ok
    /\ pbPc' = "done"
    /\ pbRes' = "Err"
    /\ UNCHANGED <<pbCfg, pbProxy, pbResp, pbRequests, notProbe>>

\* proxy.rs:165-171: the request is sent through the proxy
ProbeSend ==
    /\ pbPc = "start"
    /\ pbCfg.check_url
    /\ pbCfg.url_ok
    /\ pbPc' = "sent"
    /\ pbRequests' = pbRequests + 1
    /\ UNCHANGED <<pbCfg, pbProxy, pbResp, pbRes, notProbe>>

\* proxy.rs:169-174: a transport error or an error status is returned;
\* otherwise the elapsed time is stored and the body is awaited
ProbeAnswered ==
    /\ pbPc = "sent"
    /\ IF pbResp.kind = "transport" \/ ErrorForStatus(pbResp.status)
       THEN /\ pbPc' = "done"
            /\ pbRes' = "Err"
            /\ UNCHANGED pbProxy
       ELSE /\ pbPc' = "reading"
            /\ pbProxy' = [pbProxy EXCEPT !.timeout = {0}]
            /\ UNCHANGED pbRes
    /\ UNCHANGED <<pbCfg, pbResp, pbRequests, notProbe>>

\* proxy.rs:175-184: the body is read, or not; exit_ip is what parse_ipv4
\* finds in the origin field or in the text; check returns Ok
ProbeBody ==
    /\ pbPc = "reading"
    /\ pbPc' = "done"
    /\ pbRes' = "Ok"
    /\ pbProxy' = [pbProxy EXCEPT
                     !.exit_ip = UNION {parse_ipv4(b.text) : b \in pbResp.body}]
    /\ UNCHANGED <<pbCfg, pbResp, pbRequests, notProbe>>

(***************************************************************************)
(* storage::ProxyStorage (storage.rs) with Proxy's PartialEq and Hash      *)
(* (proxy.rs:222-241)                                                      *)
(***************************************************************************)
\* the proxies handed to insert: two protocols, with and without
\* credentials, unchecked, checked, and checked with an exit IP
StorageProxies ==
    {[protocol |-> pr, host |-> "1.2.3.4", port |-> 80,
      username |-> u, password |-> {"p" : x \in u},
      timeout |-> c.timeout, exit_ip |-> c.exit_ip] :
        pr \in ProxyTypes, u \in {{}, {"u"}},
        c \in {[timeout |-> {}, exit_ip |-> {}],
               [timeout |-> {0}, exit_ip |-> {}],
               [timeout |-> {0}, exit_ip |-> {"9.9.9.9"}]}}

\* proxy.rs:233-241: what hash feeds to the hasher
ProxyHash(p) == <<p.protocol, p.host, p.port, p.username, p.password>>

MutInsertAnyProtocol(set, enabled, p) == HashSetInsert(set, p)

\* storage.rs:15-19
ProxyStorageInsert(set, enabled, p) ==
    IF p.protocol \in enabled THEN HashSetInsert(set, p) ELSE set

\* storage.rs:21-30: a key for every protocol of a stored proxy and for
\* every enabled protocol; under a key, the stored proxies of the protocol
get_grouped(set, enabled) ==
    [protocol \in {p.protocol : p \in BagToSet(set)} \cup enabled |->
        [p \in {q \in BagToSet(set) : q.protocol = protocol} |-> set[p]]]

notStorage == <<notPure, resolveVars, probeVars, sortVars, runnerVars,
    tuiVars>>

\* storage.rs:15-19, ProxyStorage::insert; the groups borrowed from the
\* storage are gone by then
StorageInsert ==
    /\ Cardinality(stInserted) < MaxInserts
    /\ \E p \in StorageProxies :
        /\ stProxies' = ProxyStorageInsert(stProxies, enabled_protocols, p)
        /\ stArg' = {p}
        /\ stInserted' = stInserted \cup {p}
    /\ stGroups' = {}
    /\ UNCHANGED <<enabled_protocols, notStorage>>

\* storage.rs:21-30, ProxyStorage::get_grouped
StorageGetGrouped ==
    /\ stGroups' = {get_grouped(stProxies, enabled_protocols)}
    /\ UNCHANGED <<enabled_protocols, stProxies, stArg, stInserted,
                   notStorage>>

(***************************************************************************)
(* The exporter's sort (output.rs:17-27, 61-65).  A host is the sequence   *)
(* of its labels, the parts between the dots, each a sequence of bytes.    *)
(***************************************************************************)
\* "1.2.3.4", "1.2.3.10" and "a.b"
SortHosts ==
    {<< <<49>>, <<50>>, <<51>>, <<52>> >>,
     << <<49>>, <<50>>, <<51>>, <<49, 48>> >>,
     << <<97>>, <<98>> >>}

\* the proxies the exporter is given: checked ones (two of them as fast as
\* each other, two apart in the credentials only) and unchecked ones
SortProxies ==
    {[protocol |-> "Http", host |-> << <<49>>, <<50>>, <<51>>, <<52>> >>,
      port |-> 80, username |-> {}, password |-> {}, timeout |-> {0},
      exit_ip |-> {}],
     [protocol |-> "Http", host |-> << <<49>>, <<50>>, <<51>>, <<52>> >>,
      port |-> 80, username |-> {"u"}, password |-> {"p"}, timeout |-> {1},
      exit_ip |-> {}],
     [protocol |-> "Http", host |-> << <<49>>, <<50>>, <<51>>, <<49, 48>> >>,
      port |-> 80, username |-> {}, password |-> {}, timeout |-> {0},
      exit_ip |-> {}],
     [protocol |-> "Socks5", host |-> << <<97>>, <<98>> >>,
      port |-> 80, username |-> {}, password |-> {}, timeout |-> {},
      exit_ip |-> {}],
     [protocol |-> "Socks4", host |-> << <<49>>, <<50>>, <<51>>, <<52>> >>,
      port |-> 81, username |-> {}, password |-> {}, timeout |-> {},
      exit_ip |-> {}]}

\* the vectors of proxies no two of which are equal (they come out of a
\* HashSet, scraper.rs:277-281)
SortInputs ==
    {v \in UNION {[1..n -> SortProxies] : n \in 0..MaxSortLen} :
        \A i, j \in DOMAIN v : ProxyEq(v[i], v[j]) => i = j}

\* the orders in which the proxies of v can come
Orders(v) ==
    {w \in [DOMAIN v -> Range(v)] : Range(w) = Range(v)}

RECURSIVE HostBytes(_)
\* the bytes of the host: the labels with a "." between them
HostBytes(host) ==
    IF Len(host) = 0 THEN <<>>
    ELSE IF Len(host) = 1 THEN host[1]
    ELSE host[1] \o <<46>> \o HostBytes(Tail(host))

\* output.rs:22, proxy.host.parse::<Ipv4Addr>() (Option): four labels of
\* one to three decimal digits, without a leading zero, up to 255
ParseIpv4Addr(host) ==
    LET digits(label) == [i \in DOMAIN label |-> label[i] - 48]
        octet(label) ==
            /\ Len(label) \in 1..3
            /\ \A i \in DOMAIN label : label[i] \in 48..57
            /\ Len(label) > 1 => label[1] # 48
            /\ DigitsValue(digits(label)) <= 255
    IN  IF Len(host) = 4 /\ \A i \in 1..4 : octet(host[i])
        THEN {[i \in 1..4 |-> DigitsValue(digits(host[i]))]}
        ELSE {}

\* stands for Duration::MAX (output.rs:18), above every timeout measured
DurationMax == 1000

MutUnwrapOrZero(proxy) ==
    IF proxy.timeout = {} THEN 0
    ELSE CHOOSE t \in proxy.timeout : TRUE

\* output.rs:17-19
sort_by_timeout(proxy) ==
    IF proxy.timeout = {} THEN DurationMax
    ELSE CHOOSE t \in proxy.timeout : TRUE

\* proxy.rs:19-23, the derived Ord of ProxyType
ProxyTypeOrd(protocol) ==
    CASE protocol = "Http" -> 0
      [] protocol = "Socks4" -> 1
      [] protocol = "Socks5" -> 2

\* output.rs:21-27
sort_naturally(proxy) ==
    LET ip == ParseIpv4Addr(proxy.host)
        host_key == IF ip = {}
                    THEN <<255, 255, 255, 255>> \o HostBytes(proxy.host)
                    ELSE CHOOSE octets \in ip : TRUE
    IN  <<ProxyTypeOrd(proxy.protocol), host_key, proxy.port>>

RECURSIVE VecLess(_, _)
\* Ord of Vec<u8>: by the first byte that differs, a prefix first
VecLess(a, b) ==
    IF a = <<>> THEN b # <<>>
    ELSE IF b = <<>> THEN FALSE
    ELSE IF a[1] # b[1] THEN a[1] < b[1]
    ELSE VecLess(Tail(a), Tail(b))

\* output.rs:61-65: the key of p is less than the key of q
KeyLess(by_speed, p, q) ==
    IF by_speed THEN sort_by_timeout(p) < sort_by_timeout(q)
    ELSE LET a == sort_naturally(p)
             b == sort_naturally(q)
         IN  \/ a[1] < b[1]
             \/ a[1] = b[1] /\ VecLess(a[2], b[2])
             \/ a[1] = b[1] /\ a[2] = b[2] /\ a[3] < b[3]

RECURSIVE SortByKey(_, _)
\* output.rs:62, 64, slice::sort_by_key: a stable sort; proxies with equal
\* keys stay in the order they came in
SortByKey(v, by_speed) ==
    IF v = <<>> THEN <<>>
    ELSE LET n == Len(v)
             sorted == SortByKey(SubSeq(v, 1, n - 1), by_speed)
             k == Cardinality({i \in 1..(n - 1) :
                                 ~KeyLess(by_speed, v[n], sorted[i])})
         IN  SubSeq(sorted, 1, k) \o <<v[n]>> \o SubSeq(sorted, k + 1, n - 1)

notSort == <<notPure, resolveVars, probeVars, storageVars, runnerVars,
    tuiVars>>

\* output.rs:57-65, save_proxies: the vector is sorted; the files list the
\* proxies in this order (output.rs:95-96, 196-200)
SaveProxies(run) ==
    /\ srtOut[run] = {}
    /\ srtOut' = [srtOut EXCEPT ![run] = {SortByKey(srtIn[run], sort_by_speed)}]
    /\ UNCHANGED <<sort_by_speed, srtIn, notSort>>

(***************************************************************************)
(* run_without_tui and watch_signals (main.rs:179-227, 335-349)            *)
(***************************************************************************)
notRunner == <<notPure, resolveVars, probeVars, storageVars, sortVars,
    tuiVars>>

\* main.rs:344-346: the token is made, main_task and watch_signals are
\* polled by try_join!
RunWithoutTuiStart ==
    /\ rwtPc = "idle"
    /\ rwtPc' = "joining"
    /\ wsPc' = "waiting"
    /\ UNCHANGED <<wsHandlers, rwtRes, notRunner>>

\* main.rs:220-222: neither handler can be created, watch_signals returns
WatchSignalsNoHandlers ==
    /\ wsPc = "waiting"
    /\ ~wsHandlers
    /\ wsPc' = "returned"
    /\ UNCHANGED <<wsHandlers, rwtPc, rwtRes, notRunner>>

\* main.rs:198-205, 210-212, 216-218: a signal is delivered while
\* watch_signals waits for one; the token is cancelled
SignalDelivered ==
    /\ wsPc = "waiting"
    /\ wsHandlers
    /\ Cancel

\* main.rs:186, 224-226: the token is cancelled, watch_signals returns
WatchSignalsReturn ==
    /\ wsPc = "waiting"
    /\ token
    /\ wsPc' = "returned"
    /\ UNCHANGED <<wsHandlers, rwtPc, rwtRes, notRunner>>

\* main.rs:346-348: both futures have returned Ok
RunWithoutTuiOk ==
    /\ rwtPc = "joining"
    /\ mainPc = "returned" /\ mainRes = "Ok"
    /\ wsPc = "returned"
    /\ rwtPc' = "returned"
    /\ rwtRes' = "Ok"
    /\ UNCHANGED <<wsHandlers, wsPc, notRunner>>

\* main.rs:346: main_task returned an error; try_join! returns it and
\* drops watch_signals
RunWithoutTuiErr ==
    /\ rwtPc = "joining"
    /\ mainPc = "returned" /\ mainRes = "Err"
    /\ rwtPc' = "returned"
    /\ rwtRes' = "Err"
    /\ wsPc' = IF wsPc = "waiting" THEN "dropped" ELSE wsPc
    /\ UNCHANGED <<wsHandlers, notRunner>>

(***************************************************************************)
(* Stages that have not started                                            *)
(***************************************************************************)
CheckerIdle ==
    /\ ckState = "idle"
    /\ ckInput = <<>>
    /\ queue = <<>>
    /\ checked_proxies = <<>>
    /\ workers_count = 0
    /\ wpc = [w \in Workers |-> "none"]
    /\ wproxy = [w \in Workers |-> {}]
    /\ ckResult = {}
    /\ tx = <<>>
    /\ popped = <<>>
    /\ probed = [i \in ProxyIds |-> <<>>]
    /\ passedLive = {}
    /\ pushedLive = {}
    /\ cancelledInRun = FALSE

DownloadsIdle ==
    /\ dlPc = DlIdle
    /\ dlSent = NoneYet
    /\ dlResp = NoneYet
    /\ dlRes = [db \in DbTypes |-> "none"]
    /\ runs = 0
    /\ dlStatus = NoneYet
    /\ dlSnapDb = NoneYet
    /\ dlSnapEtag = NoneYet

MainIdle ==
    /\ mainPc = "idle"
    /\ mainRes = "none"
    /\ mainErr = "none"
    /\ scrPc = [s \in Sources |-> "idle"]
    /\ proxies = {}
    /\ exportInput = {}
    /\ cancelStage = "none"

FetchIdle ==
    /\ fPc = "idle"
    /\ attempt = 0
    /\ fRes = "none"
    /\ requests = 0
    /\ sleeps = <<>>
    /\ fLast = {}

ScrapeIdle ==
    /\ scfg = [max_proxies_per_source |-> 0, enabled |-> ProxyTypes,
               proto |-> [src \in ScrapeSources |-> "Http"]]
    /\ soPc = [src \in ScrapeSources |-> "idle"]
    /\ soRes = [src \in ScrapeSources |-> "none"]
    /\ scraped = EmptyBag
    /\ saPc = "idle"
    /\ saRes = "none"
    /\ saVec = EmptyBag
    /\ soFetch = [src \in ScrapeSources |-> "none"]
    /\ soText = [src \in ScrapeSources |-> {}]
    /\ soInserted = [src \in ScrapeSources |-> {}]
    /\ proxies_total = [protocol \in ProxyTypes |-> {}]

PortIdle ==
    /\ portPc = "scraped"
    /\ portText = <<>>
    /\ portNext = "end"
    /\ portEmitted = {}

ResolveIdle ==
    /\ rsPc = "resolved"
    /\ rsText = {}
    /\ rsCfg = [proto |-> "Http", enabled |-> {"Http"}]
    /\ rsOut = {}

ProbeIdle ==
    /\ pbPc = "done"
    /\ pbCfg = [check_url |-> FALSE, url_ok |-> TRUE]
    /\ pbProxy = NewProxy(1)
    /\ pbResp = [kind |-> "transport", status |-> 0, body |-> {}]
    /\ pbRes = "none"
    /\ pbRequests = 0

StorageIdle ==
    /\ enabled_protocols = {}
    /\ stProxies = EmptyBag
    /\ stGroups = {}
    /\ stArg = {}
    /\ stInserted = {}

SortIdle ==
    /\ sort_by_speed = FALSE
    /\ srtIn = <<>>
    /\ srtOut = <<>>

(***************************************************************************)
(* The TUI (tui.rs): AppMode, handle_event and the event loop of run.      *)
(* The counters of AppState take no part in the mode and are left out      *)
(* here.                                                                   *)
(***************************************************************************)
\* everything but the TUI and the token its key handlers cancel
notTui == <<cfgVars, fetchVars, scrapeVars, scrapeHist, portVars, ckVars,
            ckHist, dbFiles, dlVars, dlHist, mainVars, mainHist, resolveVars,
            probeVars, storageVars, sortVars, runnerVars>>

\* tui.rs:62-68
AppModes == {"Running", "Done", "Quit"}

\* tui.rs:361-382: the key codes the match tells apart, "k" for the keys
\* that scroll the log and "x" for any key of the last arm
KeyCodes == {"Esc", "q", "Q", "c", "C", "k", "x"}

\* tui.rs:367: the modifiers compared with KeyModifiers::CONTROL
KeyMods == {"NONE", "CONTROL", "CONTROL|SHIFT"}

\* tui.rs:360: KeyEvent.kind, is_press is true of "Press" and false of
\* "Release" (and of Repeat, which is handled as a release is)
KeyKinds == {"Press", "Release"}

NoKey == [code |-> "-", modifiers |-> "-", kind |-> "-"]

KeyEvent(code, mods, kind) ==
    [type |-> "Key", code |-> code, modifiers |-> mods, kind |-> kind,
     app |-> "-"]

AppEvent(a) == [type |-> "App", app |-> a] @@ NoKey

\* tui.rs:356-398, 441-446: Tick, Crossterm (a key, or "Other" for the mouse
\* and the rest) and App ("Counter" for the events that only count)
TuiEvents ==
    {[type |-> "Tick", app |-> "-"] @@ NoKey,
     [type |-> "Other", app |-> "-"] @@ NoKey}
    \cup {KeyEvent(c, m, k) : c \in KeyCodes, m \in KeyMods, k \in KeyKinds}
    \cup {AppEvent(a) : a \in {"Counter", "Done", "Quit"}}

\* next with Running taken straight to Quit
MutNextSkipsDone(m) == "Quit"

\* tui.rs:70-77 AppMode::next
AppModeNext(m) ==
    CASE m = "Running" -> "Done"
      [] m \in {"Done", "Quit"} -> "Quit"

\* handle_event with AppEvent::Done setting the mode whatever it is
MutDoneUnguarded(event, state, cancelled) ==
    CASE event.type = "Tick" ->
            [mode |-> state, token |-> cancelled, redraw |-> TRUE]
      [] event.type = "Key" /\ event.kind = "Press"
            /\ event.code \in {"Esc", "q", "Q"} ->
            [mode |-> AppModeNext(state), token |-> TRUE, redraw |-> FALSE]
      [] event.type = "Key" /\ event.kind = "Press"
            /\ event.code \in {"c", "C"} /\ event.modifiers = "CONTROL" ->
            [mode |-> "Quit", token |-> TRUE, redraw |-> FALSE]
      [] event.type = "App" /\ event.app = "Done" ->
            [mode |-> "Done", token |-> cancelled, redraw |-> FALSE]
      [] event.type = "App" /\ event.app = "Quit" ->
            [mode |-> "Quit", token |-> cancelled, redraw |-> FALSE]
      [] OTHER ->
            [mode |-> state, token |-> cancelled, redraw |-> FALSE]

\* tui.rs:350-453 handle_event: the mode and the token it leaves and the
\* value it returns
handle_event(event, state, cancelled) ==
    CASE event.type = "Tick" ->
            [mode |-> state, token |-> cancelled, redraw |-> TRUE]
      [] event.type = "Key" /\ event.kind = "Press"
            /\ event.code \in {"Esc", "q", "Q"} ->
            [mode |-> AppModeNext(state), token |-> TRUE, redraw |-> FALSE]
      [] event.type = "Key" /\ event.kind = "Press"
            /\ event.code \in {"c", "C"} /\ event.modifiers = "CONTROL" ->
            [mode |-> "Quit", token |-> TRUE, redraw |-> FALSE]
      [] event.type = "App" /\ event.app = "Done" ->
            [mode |-> IF state = "Running" THEN "Done" ELSE state,
             token |-> cancelled, redraw |-> FALSE]
      [] event.type = "App" /\ event.app = "Quit" ->
            [mode |-> "Quit", token |-> cancelled, redraw |-> FALSE]
      [] OTHER ->
            [mode |-> state, token |-> cancelled, redraw |-> FALSE]

\* tui.rs:43-47: run spawns the two listeners and makes AppState::default()
TuiRun ==
    /\ tuiPc = "created"
    /\ tuiPc' = "recv"
    /\ UNCHANGED <<mode, rx, handled, redraw, token, notTui>>

\* tui.rs:106, 127, main.rs:297 and the stages' tx.send: an event is sent
\* while the receiver lives
TuiSend(e) ==
    /\ tuiPc = "recv"
    /\ Len(rx) < MaxQueued
    /\ rx' = Append(rx, e)
    /\ UNCHANGED <<mode, tuiPc, handled, redraw, token, notTui>>

\* tui.rs:49-58: one turn of the loop of run, from rx.recv() to the next
\* test of the mode; draw is called when handle_event returned true and its
\* error ends run. (tick_event_listener keeps a sender until the receiver
\* is dropped, so recv never yields None.)
TuiRecv(drawn) ==
    /\ tuiPc = "recv"
    /\ mode # "Quit"
    /\ rx # <<>>
    /\ LET r == handle_event(Head(rx), mode, token) IN
        /\ mode' = r.mode
        /\ token' = r.token
        /\ redraw' = r.redraw
        /\ tuiPc' = IF r.redraw /\ ~drawn THEN "failed"
                    ELSE IF r.mode = "Quit" THEN "returned"
                    ELSE "recv"
    /\ handled' = {Head(rx)}
    /\ rx' = Tail(rx)
    /\ UNCHANGED notTui

\* tui.rs:350-453: handle_event called once on any state
HandleEventCall ==
    /\ tuiPc = "call"
    /\ LET r == handle_event(Head(rx), mode, token) IN
        /\ mode' = r.mode
        /\ token' = r.token
        /\ redraw' = r.redraw
    /\ handled' = {Head(rx)}
    /\ rx' = Tail(rx)
    /\ tuiPc' = "called"
    /\ UNCHANGED notTui

RunnerIdle ==
    /\ wsHandlers = TRUE
    /\ wsPc = "idle"
    /\ rwtPc = "idle"
    /\ rwtRes = "none"

TuiIdle ==
    /\ mode = "Running"
    /\ rx = <<>>
    /\ tuiPc = "idle"
    /\ handled = {}
    /\ redraw = FALSE

PureIdle ==
    ResolveIdle /\ ProbeIdle /\ StorageIdle /\ SortIdle /\ RunnerIdle
    /\ TuiIdle

\* the stages of a run without the parts modelled on their own
RunIdle ==
    /\ config \in {c \in Configs : /\ ~c.asn_enabled /\ ~c.geo_enabled
                                     /\ ~c.check_url
                                     /\ c.max_concurrent_checks = 1}
    /\ server = {}
    /\ token = FALSE
    /\ CheckerIdle
    /\ dbFile = NoneYet
    /\ etagFile = NoneYet
    /\ DownloadsIdle
    /\ MainIdle

\* the parts modelled on their own are not run
AsideIdle == FetchIdle /\ ScrapeIdle /\ PortIdle /\ PureIdle

(***************************************************************************)
(* The checker on its own: check_all called with any configuration and any *)
(* scraped vector, and a signal that may arrive at any time.               *)
(***************************************************************************)
CheckerConfigs == {c \in Configs : ~c.asn_enabled /\ ~c.geo_enabled}

CheckerInit ==
    /\ config \in CheckerConfigs
    /\ token = FALSE
    /\ ckState = "called"
    /\ ckInput \in {InputVec(n) : n \in 0..MaxProxies}
    /\ queue = <<>>
    /\ checked_proxies = <<>>
    /\ workers_count = 0
    /\ wpc = [w \in Workers |-> "none"]
    /\ wproxy = [w \in Workers |-> {}]
    /\ ckResult = {}
    /\ tx = <<>>
    /\ popped = <<>>
    /\ probed = [i \in ProxyIds |-> <<>>]
    /\ passedLive = {}
    /\ pushedLive = {}
    /\ cancelledInRun = FALSE
    /\ dbFile = NoneYet
    /\ etagFile = NoneYet
    /\ DownloadsIdle
    /\ server = {}
    /\ MainIdle
    /\ AsideIdle

CheckerNext ==
    \/ CheckAllNoUrl
    \/ CheckAllNoWorkers
    \/ CheckAllSpawn
    \/ \E w \in Workers : WorkerBreak(w)
    \/ \E w \in Workers : WorkerPop(w)
    \/ \E w \in Workers : WorkerPopSyncErr(w)
    \/ \E w \in Workers : WorkerProbeDone(w)
    \/ \E w \in Workers : WorkerPush(w)
    \/ \E w \in Workers : WorkerCancelled(w)
    \/ CheckAllReturn
    \/ Cancel

CheckerSpec == CheckerInit /\ [][CheckerNext]_vars

\* The runtime polls every woken task, every probe ends (the client has a
\* timeout, proxy.rs:84), and check_all's own task is polled.
CheckerFairness ==
    /\ \A w \in Workers : WF_vars(WorkerStep(w))
    /\ WF_vars(CheckAllNoUrl \/ CheckAllNoWorkers \/ CheckAllSpawn)
    /\ WF_vars(CheckAllReturn)

CheckerFairSpec == CheckerSpec /\ CheckerFairness

\* check_all with worker tasks that may panic
CheckerPanicNext ==
    \/ CheckerNext
    \/ \E w \in Workers : WorkerPanic(w)
    \/ CheckAllReturnPanicked

CheckerPanicSpec == CheckerInit /\ [][CheckerPanicNext]_vars


(***************************************************************************)
(* The IP database cache on its own: program runs one after another, each  *)
(* with a fresh token, downloading the enabled databases over the cache    *)
(* the earlier runs left.                                                  *)
(***************************************************************************)
\* main.rs:344-346, 114-147: a new process starts and spawns the downloads
IpdbNewRun ==
    /\ runs < MaxRuns
    /\ \A db \in DbTypes : dlPc[db] \in {"idle", "done"}
    /\ runs' = runs + 1
    /\ token' = FALSE
    /\ dlPc' = SpawnedDlPc
    /\ dlRes' = [db \in DbTypes |-> "none"]
    /\ dlSent' = NoneYet
    /\ dlResp' = NoneYet
    /\ dlStatus' = NoneYet
    /\ dlSnapDb' = dbFile
    /\ dlSnapEtag' = etagFile
    /\ UNCHANGED <<dbFiles, notDownload>>

IpdbInit ==
    /\ config \in {c \in Configs : /\ c.asn_enabled # c.geo_enabled
                                     /\ ~c.check_url
                                     /\ c.max_concurrent_checks = 1}
    /\ token = FALSE
    /\ CheckerIdle
    /\ dbFile = NoneYet
    /\ etagFile = NoneYet
    /\ DownloadsIdle
    /\ server = Responses
    /\ MainIdle
    /\ AsideIdle

IpdbNext ==
    \/ IpdbNewRun
    \/ \E db \in DbTypes : DownloadSend(db)
    \/ \E db \in DbTypes : DownloadSendError(db)
    \/ \E db \in DbTypes : DownloadNoSave(db)
    \/ \E db \in DbTypes : DownloadCreate(db)
    \/ \E db \in DbTypes : DownloadChunk(db)
    \/ \E db \in DbTypes : DownloadChunkError(db)
    \/ \E db \in DbTypes : DownloadBodyEnd(db)
    \/ \E db \in DbTypes : DownloadEtag(db)
    \/ \E db \in DbTypes : DownloadCancelled(db)
    \/ Cancel

IpdbSpec == IpdbInit /\ [][IpdbNext]_vars

(***************************************************************************)
(* One download over any cache directory: the files as an earlier run, or  *)
(* the user, may have left them.                                           *)
(***************************************************************************)
CachedDbFiles ==
    {{}} \cup {{DbContent(v, w, t)} :
                v \in 1..MaxVersions, t \in 0..MaxChunks, w \in 0..MaxChunks}

CachedEtagFiles ==
    {{}, {GarbledEtag}, {BinaryEtag}} \cup {{v} : v \in 1..MaxVersions}

CacheInit ==
    /\ config \in {c \in Configs : /\ c.asn_enabled # c.geo_enabled
                                     /\ ~c.check_url
                                     /\ c.max_concurrent_checks = 1}
    /\ token = FALSE
    /\ CheckerIdle
    /\ MainIdle
    /\ AsideIdle
    /\ server = Responses
    /\ \E f \in {g \in CachedDbFiles : \A c \in g : c.written <= c.total},
          e \in CachedEtagFiles :
        /\ dbFile = [db \in DbTypes |-> IF DbEnabled(config, db) THEN f ELSE {}]
        /\ etagFile = [db \in DbTypes |->
                          IF DbEnabled(config, db) THEN e ELSE {}]
    /\ dlPc = SpawnedDlPc
    /\ dlSent = NoneYet
    /\ dlResp = NoneYet
    /\ dlRes = [db \in DbTypes |-> "none"]
    /\ runs = 1
    /\ dlStatus = NoneYet
    /\ dlSnapDb = dbFile
    /\ dlSnapEtag = etagFile

CacheNext ==
    \/ \E db \in DbTypes : DownloadReadEtagError(db)
    \/ \E db \in DbTypes : DownloadSend(db)
    \/ \E db \in DbTypes : DownloadSendError(db)
    \/ \E db \in DbTypes : DownloadNoSave(db)
    \/ \E db \in DbTypes : DownloadCreate(db)
    \/ \E db \in DbTypes : DownloadChunk(db)
    \/ \E db \in DbTypes : DownloadChunkError(db)
    \/ \E db \in DbTypes : DownloadBodyEnd(db)
    \/ \E db \in DbTypes : DownloadEtag(db)
    \/ \E db \in DbTypes : DownloadCancelled(db)
    \/ Cancel

CacheSpec == CacheInit /\ [][CacheNext]_vars

(***************************************************************************)
(* One program run: main_task with its stages, over an empty cache or a    *)
(* cache an earlier run filled, and a signal that may arrive at any time.  *)
(***************************************************************************)
\* The server of a run: it publishes one version with an ETag and a body of
\* one chunk, may fail with 404, and answers 304 to a conditional request
\* (which is sent when the cache is filled).
MainServer(cached) ==
    {r \in Responses :
        \/ r.status = 404
        \/ r.status = 304 /\ cached
        \/ r.status = 200 /\ r.ver = MaxVersions /\ r.chunks = 1
                          /\ r.etag # {}}

\* One checker worker, at most one database enabled.
MainConfigs ==
    {c \in Configs : /\ c.max_concurrent_checks = 1
                     /\ ~(c.asn_enabled /\ c.geo_enabled)}

MainInit ==
    /\ config \in MainConfigs
    /\ token = FALSE
    /\ CheckerIdle
    /\ DownloadsIdle
    /\ MainIdle
    /\ AsideIdle
    /\ \E cached \in BOOLEAN :
        /\ dbFile = [db \in DbTypes |->
                        IF cached /\ DbEnabled(config, db)
                        THEN {DbContent(1, 1, 1)} ELSE {}]
        /\ etagFile = [db \in DbTypes |->
                        IF cached /\ DbEnabled(config, db) THEN {1} ELSE {}]
        /\ server = MainServer(cached)

MainNext ==
    \/ MainStart
    \/ \E s \in Sources : ScrapeFetched(s)
    \/ \E s \in Sources : ScrapeFailed(s)
    \/ \E s \in Sources : ScrapeCancelled(s)
    \/ \E db \in DbTypes : DownloadSend(db)
    \/ \E db \in DbTypes : DownloadSendError(db)
    \/ \E db \in DbTypes : DownloadNoSave(db)
    \/ \E db \in DbTypes : DownloadCreate(db)
    \/ \E db \in DbTypes : DownloadChunk(db)
    \/ \E db \in DbTypes : DownloadChunkError(db)
    \/ \E db \in DbTypes : DownloadBodyEnd(db)
    \/ \E db \in DbTypes : DownloadEtag(db)
    \/ \E db \in DbTypes : DownloadCancelled(db)
    \/ TryJoinDepsErr
    \/ TryJoinScrapeErr
    \/ TryJoinOk
    \/ ProcessProxiesSkip
    \/ ProcessProxiesCall
    \/ CheckAllNoWorkers
    \/ CheckAllSpawn
    \/ \E w \in Workers : WorkerBreak(w)
    \/ \E w \in Workers : WorkerPop(w)
    \/ \E w \in Workers : WorkerPopSyncErr(w)
    \/ \E w \in Workers : WorkerProbeDone(w)
    \/ \E w \in Workers : WorkerPush(w)
    \/ \E w \in Workers : WorkerCancelled(w)
    \/ CheckAllReturn
    \/ ProcessProxiesReturn
    \/ SaveProxiesErr
    \/ SaveProxiesOk
    \/ Cancel

MainSpec == MainInit /\ [][MainNext]_vars

(***************************************************************************)
(* A whole run without the TUI: main_task next to watch_signals.           *)
(***************************************************************************)
RunWithoutTuiInit ==
    /\ config \in {c \in MainConfigs : ~c.geo_enabled}
    /\ token = FALSE
    /\ CheckerIdle
    /\ DownloadsIdle
    /\ MainIdle
    /\ FetchIdle /\ ScrapeIdle /\ PortIdle
    /\ ResolveIdle /\ ProbeIdle /\ StorageIdle /\ SortIdle /\ TuiIdle
    /\ wsHandlers \in BOOLEAN
    /\ wsPc = "idle"
    /\ rwtPc = "idle"
    /\ rwtRes = "none"
    /\ \E cached \in BOOLEAN :
        /\ dbFile = [db \in DbTypes |->
                        IF cached /\ DbEnabled(config, db)
                        THEN {DbContent(1, 1, 1)} ELSE {}]
        /\ etagFile = [db \in DbTypes |->
                        IF cached /\ DbEnabled(config, db) THEN {1} ELSE {}]
        /\ server = MainServer(cached)

\* the steps of main_task and of the tasks it spawns
MainStep ==
    \/ rwtPc = "joining" /\ MainStart
    \/ \E s \in Sources : ScrapeFetched(s)
    \/ \E s \in Sources : ScrapeFailed(s)
    \/ \E s \in Sources : ScrapeCancelled(s)
    \/ \E db \in DbTypes : DownloadSend(db)
    \/ \E db \in DbTypes : DownloadSendError(db)
    \/ \E db \in DbTypes : DownloadNoSave(db)
    \/ \E db \in DbTypes : DownloadCreate(db)
    \/ \E db \in DbTypes : DownloadChunk(db)
    \/ \E db \in DbTypes : DownloadChunkError(db)
    \/ \E db \in DbTypes : DownloadBodyEnd(db)
    \/ \E db \in DbTypes : DownloadEtag(db)
    \/ \E db \in DbTypes : DownloadCancelled(db)
    \/ TryJoinDepsErr
    \/ TryJoinScrapeErr
    \/ TryJoinOk
    \/ ProcessProxiesSkip
    \/ ProcessProxiesCall
    \/ CheckAllNoWorkers
    \/ CheckAllSpawn
    \/ \E w \in Workers : WorkerBreak(w)
    \/ \E w \in Workers : WorkerPop(w)
    \/ \E w \in Workers : WorkerPopSyncErr(w)
    \/ \E w \in Workers : WorkerProbeDone(w)
    \/ \E w \in Workers : WorkerPush(w)
    \/ \E w \in Workers : WorkerCancelled(w)
    \/ CheckAllReturn
    \/ ProcessProxiesReturn
    \/ SaveProxiesErr
    \/ SaveProxiesOk

RunWithoutTuiNext ==
    \/ RunWithoutTuiStart
    \/ MainStep
    \/ WatchSignalsNoHandlers
    \/ SignalDelivered
    \/ WatchSignalsReturn
    \/ RunWithoutTuiOk
    \/ RunWithoutTuiErr

RunWithoutTuiSpec == RunWithoutTuiInit /\ [][RunWithoutTuiNext]_vars

\* The runtime polls every task that can go on, and every request ends
\* (the client has timeouts); signals come or do not come.
RunWithoutTuiFairness ==
    /\ WF_vars(RunWithoutTuiStart)
    /\ WF_vars(MainStep)
    /\ WF_vars(WatchSignalsNoHandlers \/ WatchSignalsReturn)
    /\ WF_vars(RunWithoutTuiOk \/ RunWithoutTuiErr)

RunWithoutTuiFairSpec == RunWithoutTuiSpec /\ RunWithoutTuiFairness

(***************************************************************************)
(* One call of fetch_text, against a server that may answer anything.      *)
(***************************************************************************)
FetchInit ==
    /\ config \in {c \in Configs : /\ ~c.asn_enabled /\ ~c.geo_enabled
                                     /\ ~c.check_url
                                     /\ c.max_concurrent_checks = 1}
    /\ server = {}
    /\ token = FALSE
    /\ CheckerIdle
    /\ dbFile = NoneYet
    /\ etagFile = NoneYet
    /\ DownloadsIdle
    /\ MainIdle
    /\ FetchIdle
    /\ ScrapeIdle
    /\ PortIdle
    /\ PureIdle

FetchNext ==
    \/ FetchSend
    \/ FetchReadFile
    \/ FetchAnswered
    \/ FetchWake
    \/ FetchBody

FetchSpec == FetchInit /\ [][FetchNext]_vars

(***************************************************************************)
(* One candidate line through the regex and the port parse, for every run  *)
(* of digits and everything that can follow it.                            *)
(***************************************************************************)
PortInit ==
    /\ config \in {c \in Configs : /\ ~c.asn_enabled /\ ~c.geo_enabled
                                     /\ ~c.check_url
                                     /\ c.max_concurrent_checks = 1}
    /\ server = {}
    /\ token = FALSE
    /\ CheckerIdle
    /\ dbFile = NoneYet
    /\ etagFile = NoneYet
    /\ DownloadsIdle
    /\ MainIdle
    /\ FetchIdle
    /\ ScrapeIdle
    /\ PureIdle
    /\ portPc = "text"
    /\ portText \in PortTexts
    /\ portNext \in {"end", "sep", "alnum"}
    /\ portEmitted = {}

PortNext == PortScrape

PortSpec == PortInit /\ [][PortNext]_vars

(***************************************************************************)
(* scrape_all over two sources, for every scraping configuration and text. *)
(***************************************************************************)
ScrapeInit ==
    /\ config \in {c \in Configs : /\ ~c.asn_enabled /\ ~c.geo_enabled
                                     /\ ~c.check_url
                                     /\ c.max_concurrent_checks = 1}
    /\ server = {}
    /\ token = FALSE
    /\ CheckerIdle
    /\ dbFile = NoneYet
    /\ etagFile = NoneYet
    /\ DownloadsIdle
    /\ MainIdle
    /\ FetchIdle
    /\ PortIdle
    /\ PureIdle
    /\ scfg \in ScrapingConfigs
    /\ soPc = [src \in ScrapeSources |-> "fetching"]
    /\ soRes = [src \in ScrapeSources |-> "none"]
    /\ scraped = EmptyBag
    /\ saPc = "joining"
    /\ saRes = "none"
    /\ saVec = EmptyBag
    /\ soFetch = [src \in ScrapeSources |-> "none"]
    /\ soText = [src \in ScrapeSources |-> {}]
    /\ soInserted = [src \in ScrapeSources |-> {}]
    /\ proxies_total = [protocol \in ProxyTypes |-> {}]

ScrapeNext ==
    \/ \E src \in ScrapeSources :
        \/ ScrapeOneFetchFailed(src)
        \/ ScrapeOneRegexError(src)
        \/ ScrapeOneFetched(src)
        \/ ScrapeOneCancelled(src)
    \/ ScrapeAllErr
    \/ ScrapeAllOk
    \/ Cancel

ScrapeSpec == ScrapeInit /\ [][ScrapeNext]_vars

\* The runtime polls a task that a cancelled token has woken
\* (scraper.rs:266) and resumes scrape_all when a task it joins has ended
\* (scraper.rs:272).
ScrapeFairness ==
    /\ \A src \in ScrapeSources : WF_vars(ScrapeOneCancelled(src))
    /\ WF_vars(ScrapeAllErr)
    /\ WF_vars(ScrapeAllOk)

ScrapeFairSpec == ScrapeSpec /\ ScrapeFairness

(***************************************************************************)
(* One match resolved, for every scheme, source protocol and enabled set.  *)
(***************************************************************************)
ResolveInit ==
    /\ RunIdle
    /\ FetchIdle
    /\ ScrapeIdle
    /\ PortIdle
    /\ rsPc = "text"
    /\ rsText \in SchemeTexts
    /\ rsCfg \in ResolveConfigs
    /\ rsOut = {}
    /\ ProbeIdle
    /\ StorageIdle
    /\ SortIdle
    /\ RunnerIdle
    /\ TuiIdle

ResolveNext == ResolveCapture

ResolveSpec == ResolveInit /\ [][ResolveNext]_vars

(***************************************************************************)
(* One call of Proxy::check on a scraped proxy, for every answer.          *)
(***************************************************************************)
ProbeInit ==
    /\ RunIdle
    /\ FetchIdle
    /\ ScrapeIdle
    /\ PortIdle
    /\ ResolveIdle
    /\ StorageIdle
    /\ SortIdle
    /\ RunnerIdle
    /\ TuiIdle
    /\ pbPc = "start"
    /\ pbCfg \in [check_url : BOOLEAN, url_ok : BOOLEAN]
    /\ pbProxy \in {NewProxy(i) : i \in 1..2}
    /\ pbResp \in ProbeResponses
    /\ pbRes = "none"
    /\ pbRequests = 0

ProbeNext ==
    \/ ProbeNoUrl
    \/ ProbeUrlError
    \/ ProbeSend
    \/ ProbeAnswered
    \/ ProbeBody

ProbeSpec == ProbeInit /\ [][ProbeNext]_vars

(***************************************************************************)
(* A ProxyStorage made for any set of protocols (storage.rs:11-13), and    *)
(* any calls of insert and get_grouped.                                    *)
(***************************************************************************)
StorageInit ==
    /\ RunIdle
    /\ FetchIdle
    /\ ScrapeIdle
    /\ PortIdle
    /\ ResolveIdle
    /\ ProbeIdle
    /\ SortIdle
    /\ RunnerIdle
    /\ TuiIdle
    /\ enabled_protocols \in SUBSET AllProxyTypes
    /\ stProxies = EmptyBag
    /\ stGroups = {}
    /\ stArg = {}
    /\ stInserted = {}

StorageNext ==
    \/ StorageInsert
    \/ StorageGetGrouped

StorageSpec == StorageInit /\ [][StorageNext]_vars

(***************************************************************************)
(* Two runs of the exporter, in either sort mode, on the same proxies in   *)
(* any two orders.                                                         *)
(***************************************************************************)
SortInit ==
    /\ RunIdle
    /\ FetchIdle
    /\ ScrapeIdle
    /\ PortIdle
    /\ ResolveIdle
    /\ ProbeIdle
    /\ StorageIdle
    /\ RunnerIdle
    /\ TuiIdle
    /\ sort_by_speed \in BOOLEAN
    /\ srtIn \in {<<v, w>> : v \in SortInputs, w \in SortInputs}
    /\ srtIn[2] \in Orders(srtIn[1])
    /\ srtOut = <<{}, {}>>

SortNext == \E run \in 1..2 : SaveProxies(run)

SortSpec == SortInit /\ [][SortNext]_vars

(***************************************************************************)
(* The TUI: either run from its start, with events sent to it and signals  *)
(* cancelling the token next to it (main.rs:303-332), or handle_event      *)
(* called once on any mode, token and event.                               *)
(***************************************************************************)
TuiInit ==
    /\ RunIdle
    /\ FetchIdle
    /\ ScrapeIdle
    /\ PortIdle
    /\ ResolveIdle
    /\ ProbeIdle
    /\ StorageIdle
    /\ SortIdle
    /\ wsHandlers = TRUE
    /\ wsPc = "idle"
    /\ rwtPc = "idle"
    /\ rwtRes = "none"
    /\ handled = {}
    /\ redraw = FALSE
    /\ \/ /\ tuiPc = "created"
          /\ mode = "Running"
          /\ rx = <<>>
       \/ /\ tuiPc = "call"
          /\ mode \in AppModes
          /\ rx \in {<<e>> : e \in TuiEvents}

TuiNext ==
    \/ TuiRun
    \/ \E e \in TuiEvents : TuiSend(e)
    \/ \E drawn \in BOOLEAN : TuiRecv(drawn)
    \/ HandleEventCall
    \/ tuiPc \in {"recv", "call"} /\ Cancel

TuiSpec == TuiInit /\ [][TuiNext]_vars

(***************************************************************************)
(* Observations on a checker run                                           *)
(***************************************************************************)
Count(s, x) == Cardinality({i \in DOMAIN s : s[i] = x})

InputIds == Ids(ckInput)

PassedIds == {i \in InputIds : Count(probed[i], "pass") > 0}

FailedIds == {i \in InputIds : Count(probed[i], "err") > 0}

\* every input proxy was popped once and one probe of it ran to its end
EveryProxyProbedOnce ==
    \A i \in InputIds : Count(popped, i) = 1 /\ Len(probed[i]) = 1

\* the returned vector holds the proxies whose probe passed, each once
ResultIsPassed ==
    \E r \in ckResult : Ids(r) = PassedIds /\ Len(r) = Cardinality(PassedIds)

Returned == ckState = "returned"

(***************************************************************************)
(* C1                                                                      *)
(***************************************************************************)
\* C1 as stated: when check_all has returned and the token was not
\* cancelled, every input proxy has been popped and probed exactly once and
\* the returned vector holds exactly the proxies whose probe passed.
C1_AsStated ==
    (Returned /\ ~token) => (EveryProxyProbedOnce /\ ResultIsPassed)

\* C1, amended: with a check URL configured, if the token is never
\* cancelled (and every probe ends, which the fairness of CheckerFairSpec
\* states) check_all eventually returns, and then every input proxy has been
\* popped and probed exactly once and the returned vector holds exactly the
\* proxies whose probe passed.
C1_ChecksAllWithUrl ==
    (config.check_url /\ []~token) =>
        <>(Returned /\ EveryProxyProbedOnce /\ ResultIsPassed)

\* a run that was never cancelled returned, with a passed and a failed proxy
C1_Witness ==
    /\ Returned /\ ~token /\ config.check_url
    /\ PassedIds # {} /\ FailedIds # {}
    /\ EveryProxyProbedOnce /\ ResultIsPassed

(***************************************************************************)
(* C2                                                                      *)
(***************************************************************************)
AllWorkersExited == \A w \in Workers : wpc[w] \in {"none", "done"}

Spawned == {w \in Workers : wpc[w] # "none"}

\* popped from the queue, probe not finished (a probe dropped by a
\* cancelled worker never finishes)
InFlight == {i \in InputIds : Count(popped, i) > 0 /\ Len(probed[i]) = 0}

\* C3: with a check URL configured, check_all spawns exactly
\* min(max_concurrent_checks, number of input proxies) workers, and the
\* number of popped proxies whose probe has not finished never exceeds it.
C3_WorkerBound ==
    config.check_url =>
        /\ ckState \in {"running", "returned"} =>
             Cardinality(Spawned) =
                 Min(config.max_concurrent_checks, Len(ckInput))
        /\ Cardinality(InFlight) <=
                 Min(config.max_concurrent_checks, Len(ckInput))

\* two workers each hold a popped proxy whose probe is running
C3_Witness ==
    /\ config.check_url /\ ckState = "running"
    /\ Cardinality(Spawned) = 2 /\ Cardinality(InFlight) = 2

(***************************************************************************)
(* C4                                                                      *)
(***************************************************************************)
ResultHasTimeouts ==
    \A r \in ckResult : \A i \in DOMAIN r : r[i].timeout # {}

\* C4 as stated: for every configuration and input, each proxy in the
\* vector check_all returned has timeout present.
C4_AsStated == Returned => ResultHasTimeouts

\* C4, amended: when a check URL is configured, each proxy in the vector
\* check_all returned has timeout present.
C4_TimeoutWithUrl == (config.check_url /\ Returned) => ResultHasTimeouts

\* a run with a check URL returned a proxy
C4_Witness ==
    /\ config.check_url /\ Returned
    /\ \E r \in ckResult : r # <<>> /\ \A i \in DOMAIN r : r[i].timeout # {}

(***************************************************************************)
(* C5                                                                      *)
(***************************************************************************)
CheckerEvents ==
    {i \in DOMAIN tx : tx[i].type \in {"ProxyChecked", "ProxyWorking"}}

\* C5: without a check URL, check_all returns its input unchanged, spawns
\* no worker, performs no probe and sends no ProxyChecked/ProxyWorking.
C5_NoUrlIsNoop ==
    ~config.check_url =>
        /\ Spawned = {}
        /\ popped = <<>>
        /\ \A i \in ProxyIds : probed[i] = <<>>
        /\ CheckerEvents = {}
        /\ Returned => ckResult = {ckInput}

\* check_all returned two unchecked proxies without a check URL
C5_Witness ==
    /\ ~config.check_url /\ Returned
    /\ \E r \in ckResult : Len(r) = 2 /\ \A i \in DOMAIN r : r[i].timeout = {}

(***************************************************************************)
(* C6                                                                      *)
(***************************************************************************)
ScrapeFinished == \A s \in Sources : scrPc[s] \in {"ok", "cancelled"}

DownloadsFinished ==
    \A db \in DbTypes : DbEnabled(config, db) => dlPc[db] = "done"

CheckerStageEntered ==
    mainPc \in {"checking", "inChecker", "exporting"} \/ ckState # "idle"

ExporterStarted == exportInput # {}

NoTaskFailed ==
    /\ \A db \in DbTypes : dlRes[db] # "Err"
    /\ \A s \in Sources : scrPc[s] # "err"

CancelledBeforeExport == cancelStage \in {"joining", "checking", "inChecker"}

\* C7 as stated: when the token was cancelled during scraping, database
\* download or checking and no task failed by itself, main_task returns Ok.
C7_AsStated ==
    (mainPc = "returned" /\ CancelledBeforeExport /\ NoTaskFailed) =>
        mainRes = "Ok"

(***************************************************************************)
(* C8                                                                      *)
(***************************************************************************)
StageFailed ==
    \/ \E db \in DbTypes : dlRes[db] = "Err"
    \/ \E s \in Sources : scrPc[s] = "err"

TasksAtEnd ==
    /\ \A db \in DbTypes : dlPc[db] \notin RunningDl
    /\ \A s \in Sources : scrPc[s] # "fetching"

TasksReturned ==
    /\ \A db \in DbTypes : dlPc[db] \in {"idle", "done"}
    /\ \A s \in Sources : scrPc[s] \in {"ok", "err", "cancelled"}

ErrorPropagated ==
    /\ mainRes = "Err"
    /\ mainErr = "deps" => \E db \in DbTypes : dlRes[db] = "Err"
    /\ mainErr = "scrape" => \E s \in Sources : scrPc[s] = "err"
    /\ mainErr \in {"deps", "scrape"}

\* C8 as stated: once the scrape stage or a download has failed, the checker
\* and the exporter are never run, main_task returns an error of a failed
\* stage, and every task that was still running has returned by itself,
\* having seen the token cancelled.
C8_AsStated ==
    StageFailed =>
        /\ ckState = "idle" /\ ~ExporterStarted
        /\ mainPc = "returned" => (ErrorPropagated /\ TasksReturned /\ token)

\* C8, amended: once the scrape stage or a download has failed, the checker
\* and the exporter are never run and main_task returns an error of a failed
\* stage; no task runs on after that: the tasks that were still running are
\* aborted with their JoinSet (the token is not cancelled by the failure).
C8_ErrorStopsRun ==
    StageFailed =>
        /\ ckState = "idle" /\ ~ExporterStarted
        /\ mainPc \in {"joining", "returned"}
        /\ mainPc = "returned" => (ErrorPropagated /\ TasksAtEnd)

\* a scraping task failed while a download was being written: main_task
\* returned the error, the download was aborted, the token is not cancelled
C8_Witness ==
    /\ mainPc = "returned" /\ mainRes = "Err" /\ mainErr = "scrape"
    /\ \E db \in DbTypes : dlPc[db] = "aborted" /\ dbFile[db] # {}
    /\ ~token

(***************************************************************************)
(* C9                                                                      *)
(***************************************************************************)
DownloadAtRest(db) == dlPc[db] \in {"idle", "done"}

\* C9 as stated: whenever no download of a database is in progress (also
\* after runs that failed or were cancelled while the body was written), if
\* its ETag file exists then its DB file exists and holds the complete body
\* of the 200 response whose ETag the ETag file stores.
C9_AsStated ==
    \A db \in DbTypes :
        DownloadAtRest(db) =>
            \A e \in etagFile[db] :
                \E f \in dbFile[db] : DbComplete(f) /\ f.ver = e

(***************************************************************************)
(* C10                                                                     *)
(***************************************************************************)
\* C10: a download answered with 304 returns Ok and leaves the DB file and
\* the ETag file as they were when it was called.
C10_NotModifiedKeepsFiles ==
    \A db \in DbTypes :
        (dlPc[db] = "done" /\ dlStatus[db] = {304}) =>
            /\ dlRes[db] = "Ok"
            /\ dbFile[db] = dlSnapDb[db]
            /\ etagFile[db] = dlSnapEtag[db]

\* a conditional request on a cached database was answered with 304
C10_Witness ==
    \E db \in DbTypes :
        /\ dlPc[db] = "done" /\ dlStatus[db] = {304} /\ dlRes[db] = "Ok"
        /\ dlSent[db] # {}
        /\ dbFile[db] # {} /\ etagFile[db] # {}

(***************************************************************************)
(* C11                                                                     *)
(***************************************************************************)
\* C11: the ETag file changes only in the step that follows the writing of
\* the whole body of a 200 response, and then holds that response's ETag or
\* is removed when the response had none; so after a download that returned
\* Ok on a 200 the ETag file holds exactly that response's ETag or does not
\* exist.  (With the token live, a task that ended Ok on a 200 is a
\* download that returned Ok.)
C11_EtagAfterBody ==
    /\ [][\A db \in DbTypes :
            etagFile'[db] # etagFile[db] =>
                /\ dlPc[db] = "saved"
                /\ \E r \in dlResp[db] :
                     /\ r.status = 200
                     /\ dbFile[db] = {DbContent(r.ver, r.chunks, r.chunks)}
                     /\ etagFile'[db] = r.etag]_vars
    /\ [](\A db \in DbTypes :
            (dlPc[db] = "done" /\ dlRes[db] = "Ok" /\ dlStatus[db] = {200}
                /\ ~token) =>
                \E r \in dlResp[db] : etagFile[db] = r.etag)

\* a 200 without an ETag header was saved over a cache that had an ETag
\* file: the ETag file is gone
C11_Witness ==
    \E db \in DbTypes :
        /\ dlPc[db] = "done" /\ dlRes[db] = "Ok" /\ dlStatus[db] = {200}
        /\ ~token
        /\ dlSnapEtag[db] # {} /\ etagFile[db] = {}
        /\ \E f \in dbFile[db] : DbComplete(f) /\ f.total > 0

(***************************************************************************)
(* C12                                                                     *)
(***************************************************************************)
RequestSent(db) ==
    dlPc[db] \in {"requesting", "writing", "saved"} \/ dlStatus[db] # {}

\* C12: the request carries If-None-Match if and only if, when download was
\* called, the DB file existed and the ETag file held a readable ETag; the
\* header is then that ETag.  An ETag file without a DB file gives a plain
\* request.
C12_ConditionalRequest ==
    \A db \in DbTypes :
        RequestSent(db) =>
            /\ dlSent[db] # {} <=>
                  (dlSnapDb[db] # {}
                     /\ \E e \in dlSnapEtag[db] :
                           e \notin {GarbledEtag, BinaryEtag})
            /\ dlSent[db] # {} => dlSent[db] = dlSnapEtag[db]

\* an ETag file without a DB file: the request went out without the header
C12_Witness ==
    \E db \in DbTypes :
        /\ RequestSent(db)
        /\ dlSnapDb[db] = {}
        /\ \E e \in dlSnapEtag[db] : e \notin {GarbledEtag, BinaryEtag}
        /\ dlSent[db] = {}


(***************************************************************************)
(* Observations on one fetch                                               *)
(***************************************************************************)
\* the request whose answer is awaited, or was the last one, has number
\* `requests`; these many sleeps lie between the requests sent so far
SleepsBetweenRequests == IF requests = 0 THEN 0 ELSE requests - 1

RetryableStatusAnswer(r) ==
    r.kind = "status" /\ r.status \in {408, 429, 500, 502, 503, 504}

\* the header's delay in ms as the server gave it (Option): Retry-After-Ms
\* if it is a number, otherwise Retry-After in seconds or as a date ahead
ServerProvidedDelay(r) ==
    IF \E v \in r.ms : v # Unparseable
    THEN r.ms
    ELSE {a.n * 1000 : a \in {b \in r.ra : b.kind = "secs"}}
         \cup {a.n * 1000 : a \in {b \in r.ra : b.kind = "date" /\ b.n >= 0}}

\* C13: a fetch sends at most 3 requests and sleeps once between two
\* consecutive requests, so at most twice; a fetch whose third request is
\* answered with a retryable status returns the error.
C13_AtMostThreeRequests ==
    /\ requests <= 3
    /\ Len(sleeps) <= 2
    /\ fPc = "sleeping" => Len(sleeps) = requests
    /\ fPc # "sleeping" => Len(sleeps) = SleepsBetweenRequests
    /\ \A r \in fLast :
         (requests = 3 /\ fPc # "awaiting" /\ RetryableStatusAnswer(r)) =>
            (fPc = "done" /\ fRes = "Err")

C13_Witness ==
    /\ fPc = "done"
    /\ fRes = "Err"
    /\ requests = 3
    /\ Len(sleeps) = 2
    /\ \E r \in fLast : r.kind = "status" /\ r.status = 503

\* C14: the fetch sleeps for a retry only after a connect error or a status
\* in {408, 429, 500, 502, 503, 504}; after any other error status or
\* another transport error it has returned the error, with no sleep and no
\* request after that answer.
C14_RetriesOnlyRetryable ==
    \A r \in fLast :
        /\ fPc = "sleeping" => (r.kind = "connect" \/ RetryableStatusAnswer(r))
        /\ (\/ r.kind = "transport"
            \/ /\ r.kind = "status"
               /\ r.status >= 400
               /\ ~RetryableStatusAnswer(r)) =>
                /\ fPc = "done"
                /\ fRes = "Err"
                /\ Len(sleeps) = SleepsBetweenRequests

C14_Witness ==
    /\ fPc = "done"
    /\ fRes = "Err"
    /\ requests = 2
    /\ Len(sleeps) = 1
    /\ \E r \in fLast : r.kind = "status" /\ r.status = 404

\* C15: after a retryable status whose server-provided delay is over 60 s
\* the fetch has returned the error without a sleep and without another
\* request, on the first attempt as on a later one.
C15_LongServerDelayGivesUp ==
    \A r \in fLast :
        (RetryableStatusAnswer(r)
         /\ \E d \in ServerProvidedDelay(r) : d > 60 * 1000) =>
            /\ fPc = "done"
            /\ fRes = "Err"
            /\ Len(sleeps) = SleepsBetweenRequests

C15_Witness ==
    /\ fPc = "done"
    /\ fRes = "Err"
    /\ requests = 2
    /\ Len(sleeps) = 1
    /\ \E r \in fLast : /\ r.status = 429
                        /\ r.ms = {}
                        /\ r.ra = {[kind |-> "secs", n |-> 61]}

\* C16: the delay slept before retry k (0 or 1) is Retry-After-Ms if that
\* header is a number, otherwise Retry-After if it is usable, otherwise a
\* backoff d with 0.75 * b <= d <= b for b = min(500 ms * 2^k, 8 s).
C16_RetryDelay ==
    fPc = "sleeping" =>
        \A r \in fLast :
            LET k == Len(sleeps) - 1
                d == sleeps[Len(sleeps)]
                b == Min(500 * Pow2(k), 8000)
            IN  /\ k \in {0, 1}
                /\ IF r.kind = "status" /\ \E v \in r.ms : v # Unparseable
                   THEN {d} = r.ms
                   ELSE IF r.kind = "status" /\ ServerProvidedDelay(r) # {}
                   THEN {d} = ServerProvidedDelay(r)
                   ELSE 4 * d >= 3 * b /\ d <= b

C16_Witness ==
    /\ fPc = "sleeping"
    /\ Len(sleeps) = 2
    /\ sleeps[2] = 1000
    /\ \E r \in fLast : /\ r.ms = {1000}
                        /\ r.ra = {[kind |-> "secs", n |-> 2]}

(***************************************************************************)
(* Observations on a scrape                                                *)
(***************************************************************************)
SameIdentity(p, q) ==
    <<p.protocol, p.host, p.port, p.username, p.password>>
        = <<q.protocol, q.host, q.port, q.username, q.password>>

\* the storage and the vector scrape_all returned
ScrapedSets == {scraped, saVec}

\* the lines of the text that a task went through
LinesOf(src) ==
    UNION {{CandidateLines[t[i]] : i \in 1..Len(t)} : t \in soText[src]}

\* the number of matches in the text that a task went through
MatchesOf(src) == UNION {{Len(Captures(t))} : t \in soText[src]}

CapAllows(n) ==
    scfg.max_proxies_per_source = 0 \/ n <= scfg.max_proxies_per_source

\* C17: the storage, and the vector scrape_all returns, hold no two proxies
\* with the same (protocol, host, port, username, password), and only
\* proxies of enabled protocols.
C17_NoDuplicatesEnabledOnly ==
    \A set \in ScrapedSets :
        \A p \in BagToSet(set) :
            /\ CopiesIn(p, set) = 1
            /\ \A q \in BagToSet(set) : SameIdentity(p, q) => p = q
            /\ p.protocol \in scfg.enabled

C17_Witness ==
    /\ saRes = "Ok"
    /\ soInserted["a"] \cap soInserted["b"] # {}
    /\ Cardinality(BagToSet(saVec)) = 2
    /\ "Socks5" \notin scfg.enabled
    /\ \E src \in ScrapeSources :
         /\ soInserted[src] # {}
         /\ \E line \in LinesOf(src) : line.scheme = {"socks5"}

\* C19: a task that went through a text has inserted its matches (those of
\* an enabled protocol) if max_proxies_per_source is 0 or the text has at
\* most that many matches; otherwise it has inserted nothing, and its step
\* left the storage as it was.
C19_CapSkipsWholeSource ==
    /\ [](\A src \in ScrapeSources : \A n \in MatchesOf(src) :
            IF CapAllows(n)
            THEN \A line \in LinesOf(src) :
                    PortGroup(line.port) =>
                        \A p \in CaptureProxy(line, scfg.proto[src]) :
                            p.protocol \in scfg.enabled =>
                                /\ p \in soInserted[src]
                                /\ \E q \in BagToSet(scraped) :
                                        SameIdentity(p, q)
            ELSE soInserted[src] = {})
    /\ [][\A src \in ScrapeSources :
            (soText[src] = {} /\ \E t \in soText'[src] :
                                    ~CapAllows(Len(Captures(t)))) =>
                scraped' = scraped]_vars

C19_Witness ==
    /\ scfg.max_proxies_per_source = 1
    /\ MatchesOf("a") = {2}
    /\ soInserted["a"] = {}
    /\ MatchesOf("b") = {1}
    /\ soInserted["b"] # {}
    /\ \E line \in LinesOf("b") : ~PortGroup(line.port)
    /\ BagToSet(scraped) = soInserted["b"]

\* C20: a task whose fetch failed has returned Ok and inserted nothing, and
\* its step left the storage as it was; scrape_all returns an error only
\* for a task that returned one, which is never a task whose fetch failed;
\* the vector scrape_all returns holds what the other tasks inserted.
C20_FetchFailureIsNotAnError ==
    /\ [](\A src \in ScrapeSources :
            soFetch[src] = "Err" => (soRes[src] = "Ok" /\ soInserted[src] = {}))
    /\ [](saRes = "Err" =>
            \E src \in ScrapeSources :
                soRes[src] = "Err" /\ soFetch[src] # "Err")
    /\ [](saRes = "Ok" =>
            \A src \in ScrapeSources : soInserted[src] \subseteq BagToSet(saVec))
    /\ [][\A src \in ScrapeSources :
            (soFetch[src] # "Err" /\ soFetch'[src] = "Err") =>
                scraped' = scraped]_vars

C20_Witness ==
    /\ saRes = "Ok"
    /\ soFetch["a"] = "Err"
    /\ soRes["a"] = "Ok"
    /\ soInserted["b"] # {}
    /\ soInserted["b"] = BagToSet(saVec)

(***************************************************************************)
(* Observations on one candidate                                           *)
(***************************************************************************)
\* C18, as stated: every proxy the scraper emits has a port p with
\* 1 <= p <= 65535.  Violated by the candidate "1.2.3.4:0".
C18_AsStated == \A p \in portEmitted : 1 <= p /\ p <= 65535

(***************************************************************************)
(* Observations on a cancelled scrape                                      *)
(***************************************************************************)
\* a task ends on the cancelled branch of its select: it was waiting and
\* ends without a result of fetch_text, while scrape_all still joins
EndsCancelled(src) ==
    /\ soPc[src] = "fetching"
    /\ soPc'[src] = "done"
    /\ soFetch'[src] = "none"
    /\ saPc' = "joining"

AllInserted == UNION {soInserted[src] : src \in ScrapeSources}

\* C21: once the token is cancelled scrape_all returns; a task that the
\* cancellation ends returns Ok and leaves the storage as it is; no step
\* takes a proxy out of the storage; scrape_all returns Ok unless a task
\* returned an error of its own, and the vector it returns is the storage:
\* every proxy a task inserted before the cancellation ended it.
C21_CancelledScrape ==
    /\ token ~> (saPc = "returned")
    /\ [][\A src \in ScrapeSources :
            EndsCancelled(src) =>
                (token /\ soRes'[src] = "Ok" /\ scraped' = scraped)]_vars
    /\ [][\A p \in BagToSet(scraped) : p \in BagToSet(scraped')]_vars
    /\ []((token /\ saRes = "Err") =>
            \E src \in ScrapeSources :
                soRes[src] = "Err" /\ soFetch[src] = "Ok")
    /\ []((token /\ saRes = "Ok") =>
            /\ \A src \in ScrapeSources : soRes[src] = "Ok"
            /\ saVec = scraped
            /\ BagToSet(saVec) = AllInserted)

C21_Witness ==
    /\ token
    /\ saRes = "Ok"
    /\ soFetch["b"] = "none"
    /\ soInserted["a"] # {}
    /\ BagToSet(saVec) = soInserted["a"]

(***************************************************************************)
(* Observations on one match                                               *)
(***************************************************************************)
\* the protocol the match is to get: that of its scheme, http and https
\* both Http, and the protocol of the source for a match without a scheme
ExpectedProtocol ==
    IF ProtocolGroup(rsText) \in {{"http"}, {"https"}} THEN "Http"
    ELSE IF ProtocolGroup(rsText) = {"socks4"} THEN "Socks4"
    ELSE IF ProtocolGroup(rsText) = {"socks5"} THEN "Socks5"
    ELSE rsCfg.proto

\* C22: the proxy made from a match has the protocol of the match's scheme
\* (http and https: Http), or the source's protocol if the match has no
\* scheme; it is inserted if that protocol is enabled and dropped if not.
C22_ProtocolResolution ==
    rsPc = "resolved" =>
        IF ExpectedProtocol \in rsCfg.enabled
        THEN /\ Cardinality(rsOut) = 1
             /\ \A p \in rsOut : p.protocol = ExpectedProtocol
        ELSE rsOut = {}

C22_Witness ==
    /\ rsPc = "resolved"
    /\ rsText = {"https"}
    /\ rsCfg.proto = "Socks5"
    /\ \E p \in rsOut : p.protocol = "Http"

(***************************************************************************)
(* Observations on the events of a checker run                             *)
(***************************************************************************)
\* the probes of proxies of a protocol that ended in one of the given ways
ProbesEnded(protocol, kinds) ==
    {<<id, i>> \in ProxyIds \X (1..MaxProxies) :
        /\ ProtocolOf(id) = protocol
        /\ i \in DOMAIN probed[id]
        /\ probed[id][i] \in kinds}

\* C23: there is one ProxyChecked(protocol) for every probe that ended and
\* one ProxyWorking(protocol) for every probe that passed, each ProxyWorking
\* right after the ProxyChecked of its probe; so after any number of
\* handled events proxies_working[p] <= proxies_checked[p].
C23_CheckedThenWorking ==
    /\ \A protocol \in {"Http", "Socks5"} :
        /\ proxies_checked(Len(tx), protocol)
              = Cardinality(ProbesEnded(protocol, {"err", "pass"}))
        /\ proxies_working(Len(tx), protocol)
              = Cardinality(ProbesEnded(protocol, {"pass"}))
        /\ \A k \in 0..Len(tx) :
              proxies_working(k, protocol) <= proxies_checked(k, protocol)
    /\ \A i \in DOMAIN tx :
          tx[i].type = "ProxyWorking" =>
              (i > 1 /\ tx[i - 1] = Event("ProxyChecked", tx[i].protocol))

C23_Witness ==
    /\ Len(tx) = 3
    /\ proxies_checked(3, "Http") = 1
    /\ proxies_working(3, "Http") = 1
    /\ proxies_checked(3, "Socks5") = 1
    /\ proxies_working(3, "Socks5") = 0

(***************************************************************************)
(* Observations on the TotalProxies events                                 *)
(***************************************************************************)
\* the number of proxies of a protocol in a bag of proxies
ProxiesOf(set, protocol) ==
    Cardinality({p \in BagToSet(set) : p.protocol = protocol})

\* C24: a TotalProxies(protocol, count) event is sent in the step in which
\* a source inserts, with count the number of proxies of that protocol in
\* the storage behind the insertions; the counts of a protocol never
\* decrease; the last count of a protocol is the number of proxies of that
\* protocol in the storage, so also in the vector scrape_all returns.
C24_TotalProxiesCounts ==
    /\ [][\A protocol \in ProxyTypes :
            proxies_total'[protocol] # proxies_total[protocol] =>
                /\ \E src \in ScrapeSources :
                      /\ soInserted[src] = {} /\ soInserted'[src] # {}
                      /\ \E p \in soInserted'[src] : p.protocol = protocol
                /\ proxies_total'[protocol] = {ProxiesOf(scraped', protocol)}
                /\ \A n \in proxies_total[protocol] :
                      n <= ProxiesOf(scraped', protocol)]_vars
    /\ [][\A protocol \in ProxyTypes :
            ProxiesOf(scraped', protocol) # ProxiesOf(scraped, protocol) =>
                proxies_total'[protocol] # proxies_total[protocol]]_vars
    /\ [](\A protocol \in ProxyTypes : \A n \in proxies_total[protocol] :
            /\ n = ProxiesOf(scraped, protocol)
            /\ saRes = "Ok" => n = ProxiesOf(saVec, protocol))

C24_Witness ==
    /\ saRes = "Ok"
    /\ proxies_total["Http"] = {2}
    /\ proxies_total["Socks5"] = {1}
    /\ \A src \in ScrapeSources :
          \E p \in soInserted[src] : p.protocol = "Http"

(***************************************************************************)
(* Observations on one probe                                               *)
(***************************************************************************)
Is2xx(status) == status >= 200 /\ status <= 299

\* C25, as stated: a probe that ended with a transport error or a non-2xx
\* status failed and left timeout and exit_ip absent; one request at most
\* is sent; timeout is present only after a 2xx status.  Violated by the
\* status 304.
C25_AsStated ==
    /\ pbRequests <= 1
    /\ (pbPc = "done" /\ pbRequests = 1
        /\ (pbResp.kind = "transport" \/ ~Is2xx(pbResp.status))) =>
            /\ pbRes = "Err"
            /\ pbProxy.timeout = {}
            /\ pbProxy.exit_ip = {}
    /\ pbProxy.timeout # {} => (pbResp.kind = "status" /\ Is2xx(pbResp.status))

\* a text that holds an IPv4 address and nothing else but white space and
\* a port: four decimal numbers up to 255 without leading zeros
HoldsIPv4(text) ==
    /\ Len(text.octets) = 4
    /\ \A i \in 1..4 :
          /\ DigitsValue(text.octets[i]) <= 255
          /\ Len(text.octets[i]) > 1 => text.octets[i][1] # 0
    /\ text.port \subseteq {<<8, 0>>}
    /\ text.trail # ", 5.6.7.8"

\* C26: a proxy with exit_ip present has timeout present, and its exit_ip
\* is an IPv4 address; a probe answered with a 2xx status has passed when
\* it is done, with exit_ip absent if the body could not be read or holds
\* no IPv4 address.
C26_ExitIpIsIPv4 ==
    /\ \A ip \in pbProxy.exit_ip :
          /\ pbProxy.timeout # {}
          /\ DOMAIN ip = 1..4
          /\ \A i \in 1..4 : ip[i] \in 0..255
    /\ (pbPc = "done" /\ pbRequests = 1
        /\ pbResp.kind = "status" /\ Is2xx(pbResp.status)) =>
            /\ pbRes = "Ok"
            /\ pbProxy.timeout # {}
            /\ (\A b \in pbResp.body : ~HoldsIPv4(b.text)) =>
                    pbProxy.exit_ip = {}

C26_Witness ==
    /\ pbPc = "done"
    /\ pbRes = "Ok"
    /\ pbResp.status = 200
    /\ \E b \in pbResp.body :
          /\ b.json
          /\ Len(b.text.octets) = 4
          /\ b.text.octets[1] = <<2, 5, 6>>
    /\ pbProxy.timeout # {}
    /\ pbProxy.exit_ip = {}

(***************************************************************************)
(* Observations on a checker run with panics                               *)
(***************************************************************************)
\* check_all has returned without a vector
CheckAllFailed == ckState = "returned" /\ ckResult = {}

\* C27, as stated: when a worker task has panicked and check_all has
\* returned, it has returned an error.  Violated: the panic is logged and
\* the vector is returned.
C27_AsStated ==
    (ckState = "returned" /\ \E w \in Workers : wpc[w] = "panicked") =>
        CheckAllFailed

(***************************************************************************)
(* Observations on a ProxyStorage                                          *)
(***************************************************************************)
Identity(p) ==
    [protocol |-> p.protocol, host |-> p.host, port |-> p.port,
     username |-> p.username, password |-> p.password]

Stored == BagToSet(stProxies)

\* C28: the proxy handed to insert and any other proxy are equal, and hash
\* alike, exactly when protocol, host, port, username and password are
\* equal, whatever timeout and exit_ip are; an insert of a proxy whose
\* identity is stored leaves the size of the set as it was.
C28_IdentityOnly ==
    [][\A p \in stArg' :
          /\ \A q \in StorageProxies :
                /\ ProxyEq(p, q) <=> (Identity(p) = Identity(q))
                /\ (ProxyHash(p) = ProxyHash(q)) <=>
                        (Identity(p) = Identity(q))
          /\ (\E q \in Stored : Identity(q) = Identity(p)) =>
                BagCardinality(stProxies') = BagCardinality(stProxies)]_vars

C28_Witness ==
    /\ BagCardinality(stProxies) = 1
    /\ \E p \in stArg, q \in Stored :
          /\ Identity(p) = Identity(q)
          /\ q.timeout = {}
          /\ p.exit_ip # {}

\* C29: the storage holds one proxy for each identity inserted with an
\* enabled protocol and nothing else; get_grouped has a group for every
\* enabled protocol and no other, every stored proxy is once in the group
\* of its protocol, and the groups hold nothing else.
C29_StoredAndGrouped ==
    LET accepted == {p \in stInserted : p.protocol \in enabled_protocols}
    IN  /\ {Identity(p) : p \in Stored} = {Identity(p) : p \in accepted}
        /\ BagCardinality(stProxies) =
              Cardinality({Identity(p) : p \in accepted})
        /\ \A groups \in stGroups :
              /\ DOMAIN groups = enabled_protocols
              /\ \A k \in DOMAIN groups :
                    \A p \in BagToSet(groups[k]) :
                        p.protocol = k /\ p \in Stored
              /\ \A p \in Stored : CopiesIn(p, groups[p.protocol]) = 1

C29_Witness ==
    /\ \E p \in stInserted : p.protocol \notin enabled_protocols
    /\ \E groups \in stGroups :
          /\ \E k \in DOMAIN groups : BagToSet(groups[k]) = {}
          /\ \E k \in DOMAIN groups : BagCardinality(groups[k]) = 2

(***************************************************************************)
(* Observations on the exporter's sort                                     *)
(***************************************************************************)
\* C30, as stated: two runs given the same checked proxies, in whatever
\* orders, write them out in the same order, in both sort modes.
\* Violated: proxies with equal keys come out in the order they came in.
C30_AsStated ==
    (/\ srtOut[1] # {}
     /\ srtOut[2] # {}
     /\ \A i \in DOMAIN srtIn[1] : srtIn[1][i].timeout # {}) =>
        srtOut[1] = srtOut[2]

\* C31: when sorting by speed, the list written out is in non-decreasing
\* order of timeout, and every proxy without a timeout comes after every
\* proxy with one.
C31_SortedBySpeed ==
    sort_by_speed =>
        \A run \in 1..2 : \A out \in srtOut[run] :
            \A i, j \in DOMAIN out :
                i < j =>
                    /\ out[i].timeout = {} => out[j].timeout = {}
                    /\ \A a \in out[i].timeout, b \in out[j].timeout : a <= b

C31_Witness ==
    /\ sort_by_speed
    /\ \E out \in srtOut[1] :
          /\ out # srtIn[1]
          /\ \E i, j, k \in DOMAIN out :
                /\ out[i].timeout = {0}
                /\ out[j].timeout = {1}
                /\ out[k].timeout = {}

\* C32, as stated: once the token has been cancelled no worker pops a
\* further proxy or starts a new probe.  Violated: a worker whose work is
\* ready when it is polled goes on to the next proxy first.
C32_AsStated ==
    [][token =>
          /\ popped' = popped
          /\ \A w \in Workers : wpc'[w] = "probing" => wpc[w] = "probing"]_vars

(***************************************************************************)
(* Observations on a run without the TUI                                   *)
(***************************************************************************)
\* C33, as stated: in a run in which no signal is ever delivered, once
\* main_task has returned run_without_tui returns too.  Violated:
\* watch_signals waits for a signal that does not come.
C33_AsStated ==
    ([]~token) => ((mainPc = "returned") ~> (rwtPc = "returned"))

(***************************************************************************)
(* Observations on the proxies of a checker run                            *)
(***************************************************************************)
\* the ProxyWorking events sent so far
WorkingEvents == {i \in DOMAIN tx : tx[i].type = "ProxyWorking"}

\* C34, as stated: when check_all has returned, the number of ProxyWorking
\* events equals the length of the returned vector, cancelled or not.
\* Violated: a worker cancelled while it waits to push loses its proxy.
C34_AsStated ==
    (Returned /\ config.check_url) =>
        \A r \in ckResult : Cardinality(WorkingEvents) = Len(r)

\* the number of places that hold input proxy i
InQueue(i) == Cardinality({k \in DOMAIN queue : queue[k].id = i})

HeldBy(i) == {w \in Workers : \E p \in wproxy[w] : p.id = i}

InResults(i) ==
    Cardinality({k \in DOMAIN checked_proxies : checked_proxies[k].id = i})

\* C35: while check_all runs and when it has returned, every input proxy
\* is in the queue, or held by one worker, or in the results, or in none
\* of them after it has been popped (dropped); it is popped and probed
\* once at most, and the returned vector holds input proxies, each once.
C35_OnePlace ==
    (config.check_url /\ ckState \in {"running", "returned"}) =>
        /\ \A i \in InputIds :
              /\ InQueue(i) + Cardinality(HeldBy(i)) + InResults(i) <= 1
              /\ InQueue(i) = 0 =>
                    Cardinality({k \in DOMAIN popped : popped[k] = i}) = 1
              /\ InQueue(i) = 1 => \A k \in DOMAIN popped : popped[k] # i
              /\ Len(probed[i]) <= 1
        /\ \A r \in ckResult :
              /\ \A k \in DOMAIN r :
                    /\ r[k].id \in InputIds
                    /\ r[k].protocol = ckInput[r[k].id].protocol
              /\ \A k, l \in DOMAIN r : r[k].id = r[l].id => k = l

\* one proxy is in the results, the other was dropped after its probe
\* failed, and check_all has returned
C35_Witness ==
    /\ config.check_url /\ Returned
    /\ \E i, j \in InputIds :
          /\ InResults(i) = 1
          /\ InQueue(j) + Cardinality(HeldBy(j)) + InResults(j) = 0
          /\ probed[j] = <<"err">>

(***************************************************************************)
(* Observations on the insertions of one source                            *)
(***************************************************************************)
\* the proxies of an enabled protocol that the matching lines of the texts
\* stand for
AcceptedOf(texts, src) ==
    {p \in UNION {CaptureProxy(CandidateLines[t[i]], scfg.proto[src]) :
                    <<t, i>> \in {<<u, k>> \in texts \X (1..MaxLines) :
                                    /\ k <= Len(u)
                                    /\ PortGroup(CandidateLines[u[k]].port)}} :
        p.protocol \in scfg.enabled}

\* every proxy of ps is in the set, up to identity
HoldsAll(set, ps) ==
    \A p \in ps : \E q \in BagToSet(set) : SameIdentity(p, q)

\* C36: the storage changes only in the step in which one task ends, and
\* that step either leaves the storage as it was or leaves it holding all
\* the accepted matches of the task's source; so in the vector scrape_all
\* returns, whenever the token was cancelled, a source has all of its
\* accepted matches or has inserted none.
C36_AllOrNone ==
    /\ [][scraped' # scraped =>
            \E src \in ScrapeSources :
                /\ soPc[src] = "fetching" /\ soPc'[src] = "done"
                /\ \A other \in ScrapeSources \ {src} :
                      soPc'[other] = soPc[other]
                /\ soInserted[src] = {}
                /\ AcceptedOf(soText'[src], src) # {}
                /\ HoldsAll(scraped', AcceptedOf(soText'[src], src))]_vars
    /\ [](saRes = "Ok" =>
            \A src \in ScrapeSources :
                \/ /\ soRes[src] = "Ok" /\ soText[src] # {}
                   /\ ~OverCap(scfg.max_proxies_per_source,
                               Cardinality(UNION {DOMAIN Captures(t) :
                                                    t \in soText[src]}))
                   /\ HoldsAll(saVec, AcceptedOf(soText[src], src))
                \/ soInserted[src] = {})

\* the token was cancelled; one source has both of its matches in the
\* returned vector, the other was ended by the cancellation
C36_Witness ==
    /\ token
    /\ saRes = "Ok"
    /\ \E src \in ScrapeSources :
          /\ Cardinality(AcceptedOf(soText[src], src)) = 2
          /\ HoldsAll(saVec, AcceptedOf(soText[src], src))
          /\ BagCardinality(saVec) = 2
    /\ \E src \in ScrapeSources : soFetch[src] = "none" /\ soRes[src] = "Ok"

(***************************************************************************)
(* Observations on the answers with an error status                        *)
(***************************************************************************)
\* C37: a fetch that returned Ok had a last answer with a status that is
\* neither 4xx nor 5xx (or read a file); after an answer with a 4xx or 5xx
\* status the fetch sleeps for a retry, or has sent the retry, or has
\* returned the error, and on the last attempt it has returned the error.
C37_NoSuccessOnErrorStatus ==
    /\ (fPc = "done" /\ fRes = "Ok") =>
          \A r \in fLast :
              r.kind = "status" /\ (r.status < 400 \/ r.status > 599)
    /\ \A r \in fLast :
          (r.kind = "status" /\ r.status \in 400..599) =>
              /\ \/ fPc \in {"sleeping", "awaiting"}
                 \/ fPc = "done" /\ fRes = "Err"
              /\ (attempt = DEFAULT_MAX_RETRIES /\ fPc # "awaiting") =>
                    (fPc = "done" /\ fRes = "Err")

\* the third request was answered with the retryable status 429 and the
\* fetch returned the error
C37_Witness ==
    /\ fPc = "done"
    /\ fRes = "Err"
    /\ attempt = DEFAULT_MAX_RETRIES
    /\ \E r \in fLast : r.kind = "status" /\ r.status = 429 /\ r.ms = {1000}

(***************************************************************************)
(* The mode of the TUI                                                     *)
(***************************************************************************)
\* the place of a mode on the way Running -> Done -> Quit
ModeRank(m) == CASE m = "Running" -> 0 [] m = "Done" -> 1 [] m = "Quit" -> 2

\* this step hands the first waiting event to handle_event
HandlesEvent == rx # <<>> /\ Len(rx') < Len(rx)

\* C38: the mode only moves forward along Running -> Done -> Quit: no step
\* moves it backward, a handled AppEvent::Done changes it only when it is
\* Running (Quit stays Quit, Done stays Done), and run is never left
\* waiting for an event with the mode Quit: it has returned as soon as the
\* mode is Quit, and when it returns Ok the mode is Quit.
C38_ModeOnlyForward ==
    /\ [][/\ ModeRank(mode') >= ModeRank(mode)
          /\ (HandlesEvent /\ Head(rx) = AppEvent("Done")) =>
                mode' = IF mode = "Running" THEN "Done" ELSE mode]_vars
    /\ [](/\ tuiPc = "recv" => mode # "Quit"
          /\ tuiPc = "returned" => mode = "Quit")

\* AppEvent::Done was handed to handle_event with the mode Quit, which it
\* left as it was
C38_Witness ==
    /\ tuiPc = "called"
    /\ handled = {AppEvent("Done")}
    /\ mode = "Quit"

\* a press of Esc, q or Q (tui.rs:362)
IsNextKey(e) ==
    e.type = "Key" /\ e.kind = "Press" /\ e.code \in {"Esc", "q", "Q"}

\* a press of c or C with Control and nothing else held (tui.rs:366-367)
IsCtrlC(e) ==
    /\ e.type = "Key" /\ e.kind = "Press"
    /\ e.code \in {"c", "C"} /\ e.modifiers = "CONTROL"

\* C39: every handled press of Esc, q or Q cancels the token and takes the
\* mode from Running to Done and from Done to Quit; every handled press of
\* Ctrl-C cancels the token and sets the mode to Quit; no other key event
\* and no tick changes the mode or the token; so whenever a key event
\* brings the mode to Quit the token is cancelled.
C39_KeysCancelAndAdvance ==
    [][HandlesEvent =>
        LET e == Head(rx) IN
        /\ IsNextKey(e) =>
              /\ token'
              /\ mode = "Running" => mode' = "Done"
              /\ mode \in {"Done", "Quit"} => mode' = "Quit"
        /\ IsCtrlC(e) => token' /\ mode' = "Quit"
        /\ (e.type \in {"Key", "Tick"} /\ ~IsNextKey(e) /\ ~IsCtrlC(e)) =>
              mode' = mode /\ token' = token
        /\ (e.type = "Key" /\ mode' = "Quit" /\ mode # "Quit") => token']_vars

\* run returned because a press of q was handled in the mode Done, with
\* the token cancelled
C39_Witness ==
    /\ tuiPc = "returned"
    /\ mode = "Quit"
    /\ token
    /\ handled = {KeyEvent("q", "NONE", "Press")}

====
